---- MODULE Spec2Model ----
(***************************************************************************)
(* Univention Directory Listener.                                          *)
(*                                                                         *)
(* Part 1 (specification Spec): the main loop notifier_listen of           *)
(* management/univention-directory-listener/src/notifier.c, which asks the *)
(* notifier for the next transaction id, hands the transaction to          *)
(* change_update_dn, appends it to the transaction file and persists the   *)
(* cursor.                                                                 *)
(*                                                                         *)
(* Part 2 (specification SpecHandlers): the handler runtime of handlers.c  *)
(* (src/unnamed/part_007): import of handler modules into the priority     *)
(* list, handlers_update, handlers_delete, prerun/postrun.                 *)
(*                                                                         *)
(* Part 3 (specification SpecRetry): the macros LDAP_RETRY, NOTIFIER_RETRY *)
(* and NOTIFIER_CLIENT_NEW_RETRY of utils.h (src/unnamed/part_000), for    *)
(* every configured limit and every behaviour of the server.               *)
(***************************************************************************)
EXTENDS Integers, Sequences, FiniteSets, TLC

VARIABLES
    \* ---- notifier_listen (notifier.c) ----
    pc,                     \* position of the process in notifier_listen
    id,                     \* local "NotifierID id"
    rv,                     \* local "int rv"
    timeout,                \* local "time_t timeout"
    reply,                  \* the message notifier_get_msg(msgid) yields, or NoReply
    cur,                    \* trans.cur.notify (id, command)
    prev,                   \* trans.prev.notify (id, command)
    lp_ld,                  \* trans.lp->ld != NULL
    lp_local_ld,            \* trans.lp_local->ld != NULL
    master_id,              \* cache_master_entry.id as persisted in the cache
    notifier_id_key,        \* the cache key "notifier_id"
    transfile,              \* the ids for which notifier_write_transaction_file
                            \* returned 0, in the order of the calls
    failed_ldif,            \* the sentinel failed.ldif exists
    write_transaction_file, \* argument of notifier_listen
    min_mib,                \* listener/freespace
    \* ---- history of the listener run (not program state) ----
    req_id,                 \* target id of the last GET_ID sent in this run (0: none)
    handed,                 \* ids handed to change_update_dn in this run, in order
    updated,                \* ids for which change_update_dn returned LDAP_SUCCESS (ever)
    run_start,              \* the persisted cursor when this run started
    top_cursor,             \* the persisted cursor at the top of the current iteration
    last_reply,             \* the reply taken from the queue in this iteration
    fail_step,              \* the step that made notifier_listen stop
    restarts,               \* number of process starts so far
    stat_seen,              \* the statvfs results check_free_space saw in this
                            \* iteration, as a set of at most one element
    idle,                   \* seconds notifier_wait has timed out for since the
                            \* last GET_ID request of an iteration was sent
    postrun_idle,           \* value of idle when handlers_postrun_all was called in
                            \* this iteration (-1: not called)
    reconnected,            \* the last keepalive opened a new notifier connection
    looked_up,              \* the id notifier_wait_id_result was called for in
                            \* this iteration (0: it was not called)
    \* ---- handler runtime (handlers.c) ----
    handlers,               \* the linked list "Handler *handlers"
    cache,                  \* the cached entry of the DN, with its module list
    hpc,                    \* "off" (not started), "load", "idle" or "done"
    hlog,                   \* hook invocations of the current transaction, in order
    hrv,                    \* return value of the last handlers_update / handlers_delete
    hop,                    \* the last operation and its arguments
    INIT_ONLY,              \* the listener only initialises the handlers
    \* ---- history of the handler runtime (not program state) ----
    failed_before,          \* the handlers whose handle failed in the last completed
                            \* update of the entry
    dispatched,             \* the handlers whose handle hook was called since they
                            \* were loaded or since their last successful postrun
    \* ---- the state files of the handlers ----
    state_files,            \* cache/handlers/<name>, for every handler name
    \* ---- history of loading and freeing (not program state) ----
    loaded,                 \* the names of the loaded handlers, in load order
    freed,                  \* for every name: the state handler_free found and
                            \* what became of its write, since the last load
    \* ---- one expansion of a retry macro of utils.h ----
    rpc,                    \* "off" (not started), "cmd", "connect" or "done"
    macro,                  \* LDAP_RETRY, NOTIFIER_RETRY or NOTIFIER_CLIENT_NEW_RETRY
    retries,                \* ldap_retries or notifier_retries
    m_retry,                \* local "_retry"
    m_rv,                   \* local "_rv"
    m_delay,                \* local "_delay"
    \* ---- history of the expansion (not program state) ----
    evals,                  \* number of evaluations of cmd
    connects,               \* number of calls of univention_ldap_open /
                            \* notifier_client_new made by the macro itself
    delays,                 \* the values assigned to _delay, in order
    slept                   \* the arguments of sleep, in order

lvars == <<pc, id, rv, timeout, reply, cur, prev, lp_ld, lp_local_ld, master_id,
           notifier_id_key, transfile, failed_ldif, write_transaction_file, min_mib,
           req_id, handed, updated, run_start, top_cursor, last_reply, fail_step,
           restarts, stat_seen, idle, postrun_idle, reconnected, looked_up>>

hvars == <<handlers, cache, hpc, hlog, hrv, hop, INIT_ONLY, failed_before, dispatched>>

rvars == <<rpc, macro, retries, m_retry, m_rv, m_delay, evals, connects, delays, slept>>

fvars == <<state_files, loaded, freed>>

vars == <<lvars, hvars, rvars, fvars>>

-----------------------------------------------------------------------------
(* Bounds of the model *)

\* transaction ids run from 1 to MaxId
MaxId == 3
\* the listener process is started at most MaxRestarts + 1 times
MaxRestarts == 1
\* free MiB a monitored file system may report: 0 .. MaxFreeMib
MaxFreeMib == 2
\* keepalives sent while waiting for one reply: at most MaxAlive
MaxAlive == 1
\* ldap_retries and notifier_retries are 0 .. MaxRetries
MaxRetries == 7
\* a retry macro evaluates its command at most MaxEvals times
MaxEvals == 3

-----------------------------------------------------------------------------
(* Constants of the program *)

DELAY_LDAP_CLOSE == 15
DELAY_ALIVE == 5 * 60

\* <ldap.h> result codes used by notifier.c
LDAP_SUCCESS == 0
LDAP_SERVER_DOWN == -1
LDAP_NO_SUCH_ATTRIBUTE == 16

\* the command characters of a transaction; NUL is '\0'.  notifier_listen
\* tells only '\0' from the others; 'r' is the one change_update_dn may stash,
\* 'm' stands for 'a', 'm' and 'd'.
Commands == {"m", "r"}
NUL == "NUL"

NoReply == [id |-> 0, command |-> "none"]
\* memset(&trans.cur, 0, ...), change_free_transaction_op
ZeroOp == [id |-> 0, command |-> NUL]

Ids == 0 .. (MaxId + 1)

\* what the notifier may answer to GET_ID: "<id> <dn> <cmd>" or "<id>" only
Replies == [id : Ids, command : Commands \cup {NUL}]

-----------------------------------------------------------------------------
(* check_free_space: TRUE iff the process aborts.  stat[d].ok is FALSE when *)
(* statvfs fails; stat[d].free_mib is the free space of directory d.        *)

Dirnames == {"cache_dir", "ldap_dir"}

\* variant: a file system with exactly the minimum free counts as a breach
FreeSpaceStrict(min, stat) ==
    IF min <= 0 THEN FALSE
    ELSE \E d \in Dirnames : stat[d].ok /\ ~(stat[d].free_mib > min)

check_free_space(min, stat) ==
    IF min <= 0 THEN FALSE
    ELSE \E d \in Dirnames : stat[d].ok /\ ~(stat[d].free_mib >= min)

StatResults == [Dirnames -> [ok : BOOLEAN, free_mib : 0 .. MaxFreeMib]]

-----------------------------------------------------------------------------
(* Leaving notifier_listen: label out (lines 251-254) and the return        *)
(* statements inside the wait loop.                                         *)

Return(code, step) ==
    /\ pc' = "returned"
    /\ rv' = code
    /\ fail_step' = step
    /\ cur' = ZeroOp
    /\ prev' = ZeroOp
    /\ reply' = NoReply

-----------------------------------------------------------------------------
(* notifier_listen, lines 141-146: the locals are initialised from the      *)
(* persisted master entry.                                                  *)

\* variant: the run starts from the key "notifier_id" instead
StartIdFromKey(master, key) == key

\* line 143: NotifierID id = cache_master_entry.id
StartId(master, key) == master

Start ==
    /\ pc \in {"off", "returned", "aborted"}
    /\ restarts <= MaxRestarts
    /\ restarts' = restarts + 1
    /\ pc' = "top"
    /\ id' = StartId(master_id, notifier_id_key)
    /\ rv' = 0
    /\ cur' = ZeroOp
    /\ prev' = ZeroOp
    /\ reply' = NoReply
    /\ last_reply' = NoReply
    /\ timeout' = DELAY_LDAP_CLOSE
    /\ lp_ld' \in BOOLEAN
    /\ lp_local_ld' \in BOOLEAN
    /\ run_start' = master_id
    /\ top_cursor' = master_id
    /\ req_id' = 0
    /\ handed' = <<>>
    /\ fail_step' = "none"
    /\ stat_seen' = {}
    /\ idle' = 0
    /\ postrun_idle' = -1
    /\ reconnected' = FALSE
    /\ looked_up' = 0
    /\ UNCHANGED <<master_id, notifier_id_key, transfile, failed_ldif,
                   write_transaction_file, min_mib, updated, hvars, rvars, fvars>>

\* variant: the request names the transaction after the persisted cursor
GetDnTargetCursor(last, cursor) == cursor + 1

\* variant: the request names the transaction handed last once more
GetDnTargetSame(last, cursor) == last

\* the id a GET_ID request asks for (lines 155 and 169): id + 1
GetDnTarget(last, cursor) == last + 1

\* variant: the wait starts with the keepalive interval
FirstTimeoutAlive == DELAY_ALIVE

\* line 150: time_t timeout = DELAY_LDAP_CLOSE
FirstTimeout == DELAY_LDAP_CLOSE

(* Top of the loop, lines 148-152: the timeout is reset and check_free_space *)
(* looks at the monitored file systems; it aborts the process on a breach.   *)
LoopTop ==
    /\ pc = "top"
    /\ id < MaxId
    /\ top_cursor' = master_id
    /\ last_reply' = NoReply
    /\ timeout' = FirstTimeout
    /\ \E stat \in StatResults :
         /\ stat_seen' = {stat}
         /\ IF check_free_space(min_mib, stat)
            THEN /\ pc' = "aborted"
                 /\ fail_step' = "free_space"
            ELSE /\ pc' = "get_dn"
                 /\ UNCHANGED fail_step
    /\ UNCHANGED <<id, rv, reply, cur, prev, lp_ld, lp_local_ld, master_id,
                   notifier_id_key, transfile, failed_ldif, write_transaction_file,
                   min_mib, req_id, handed, updated, run_start, restarts, idle,
                   postrun_idle, reconnected, looked_up, hvars, rvars, fvars>>

(* Lines 154-157: notifier_get_dn sends the GET_ID request for id + 1; the   *)
(* loop is left when the request cannot be sent.                             *)
GetDn ==
    /\ pc = "get_dn"
    /\ stat_seen' = {}
    /\ idle' = 0
    /\ postrun_idle' = -1
    /\ reconnected' = FALSE
    /\ \E sent \in BOOLEAN :
         IF sent
         THEN /\ pc' = "wait"
              /\ req_id' = GetDnTarget(id, master_id)
              /\ reply' = NoReply
              /\ UNCHANGED <<rv, cur, prev, fail_step>>
         ELSE \* msgid < 1: break
              /\ Return(rv, "get_dn")
              /\ UNCHANGED <<req_id>>
    /\ UNCHANGED <<id, timeout, lp_ld, lp_local_ld, master_id, notifier_id_key,
                   transfile, failed_ldif, write_transaction_file, min_mib, handed,
                   updated, run_start, top_cursor, last_reply, restarts, looked_up,
                   hvars, rvars, fvars>>

\* variant: the timeout stays as it is after the connections were closed
TimeoutAfterClose == DELAY_LDAP_CLOSE

\* line 181: timeout = DELAY_ALIVE
TimeoutAfterPostrun == DELAY_ALIVE

(* Wait loop, lines 161-183: notifier_wait timed out with the short timeout: *)
(* close the LDAP connections, call handlers_postrun_all, wait with          *)
(* DELAY_ALIVE from now on.                                                  *)
WaitClose ==
    /\ pc = "wait" /\ reply = NoReply
    /\ timeout # DELAY_ALIVE
    /\ rv' = 0
    /\ lp_ld' = FALSE
    /\ lp_local_ld' = FALSE
    /\ timeout' = TimeoutAfterPostrun
    /\ idle' = idle + timeout
    /\ postrun_idle' = idle + timeout
    /\ UNCHANGED <<pc, id, reply, cur, prev, master_id, notifier_id_key, transfile,
                   failed_ldif, write_transaction_file, min_mib, req_id, handed,
                   updated, run_start, top_cursor, last_reply, fail_step, restarts,
                   stat_seen, reconnected, looked_up, hvars, rvars, fvars>>

(* Wait loop, lines 163-169: timeout with timeout = DELAY_ALIVE: keepalive,  *)
(* then the GET_ID request is sent again.                                    *)
WaitAlive ==
    /\ pc = "wait" /\ reply = NoReply
    /\ timeout = DELAY_ALIVE
    /\ idle < DELAY_LDAP_CLOSE + MaxAlive * DELAY_ALIVE
    /\ idle' = idle + timeout
    /\ \E alive \in {0, 1}, connected \in BOOLEAN :
         \* alive is the result of NOTIFIER_RETRY(notifier_alive_s(NULL)), which
         \* may have opened a new connection with notifier_client_new
         IF alive = 1
         THEN /\ Return(1, "alive")
              /\ UNCHANGED <<req_id, reconnected>>
         ELSE /\ rv' = 0
              /\ req_id' = GetDnTarget(id, master_id)
              /\ reconnected' = connected
              /\ UNCHANGED <<pc, reply, cur, prev, fail_step>>
    /\ UNCHANGED <<id, timeout, lp_ld, lp_local_ld, master_id, notifier_id_key,
                   transfile, failed_ldif, write_transaction_file, min_mib, handed,
                   updated, run_start, top_cursor, last_reply, restarts, stat_seen,
                   postrun_idle, looked_up, hvars, rvars, fvars>>

\* variant: the result of notifier_wait is passed on
WaitFailureCode(w) == w

\* lines 186 and 188: return 1
WaitFailure(w) == 1

(* Wait loop, lines 184-189: data is ready (rv > 0) and is received, or      *)
(* receiving fails, or notifier_wait itself fails (rv < 0).                  *)
WaitData ==
    /\ pc = "wait" /\ reply = NoReply
    /\ \E w \in {-1, 1}, received \in BOOLEAN, r \in Replies \cup {NoReply} :
         IF w > 0 /\ received
         THEN /\ rv' = w
              /\ reply' = r
              /\ UNCHANGED <<pc, cur, prev, fail_step>>
         ELSE IF w > 0
         THEN Return(WaitFailure(w), "recv")
         ELSE Return(WaitFailure(w), "wait")
    /\ UNCHANGED <<id, timeout, lp_ld, lp_local_ld, master_id, notifier_id_key,
                   transfile, failed_ldif, write_transaction_file, min_mib, req_id,
                   handed, updated, run_start, top_cursor, last_reply, restarts,
                   stat_seen, idle, postrun_idle, reconnected, looked_up, hvars, rvars,
                   fvars>>

\* variants: the check of line 199 without its first, without its second part
OrderingOnlyPast(n, last) == n.id <= last
OrderingOnlyNext(n, last) == n.id # last + 1 /\ n.command # NUL

\* the ordering check of line 199
OrderingViolation(n, last) ==
    (n.id # last + 1 /\ n.command # NUL) \/ n.id <= last

(* Lines 192-203: the reply is taken from the queue and checked.             *)
Receive ==
    /\ pc = "wait" /\ reply # NoReply
    /\ last_reply' = reply
    /\ looked_up' = 0
    /\ \E parsed \in BOOLEAN :
         IF ~parsed
         THEN Return(1, "get_dn_result")
         ELSE IF OrderingViolation(reply, id)
         THEN Return(1, "ordering")
         ELSE /\ pc' = "ldap_open"
              /\ cur' = reply
              /\ reply' = NoReply
              /\ UNCHANGED <<rv, prev, fail_step>>
    /\ UNCHANGED <<id, timeout, lp_ld, lp_local_ld, master_id, notifier_id_key,
                   transfile, failed_ldif, write_transaction_file, min_mib, req_id,
                   handed, updated, run_start, top_cursor, restarts, stat_seen, idle,
                   postrun_idle, reconnected, hvars, rvars, fvars>>

(* Lines 205-209: ensure that the LDAP connection is open.                   *)
EnsureLdap ==
    /\ pc = "ldap_open"
    /\ IF lp_ld
       THEN /\ pc' = "fetch"
            /\ UNCHANGED <<rv, lp_ld, cur, prev, reply, fail_step>>
       ELSE \E r \in {LDAP_SUCCESS, LDAP_SERVER_DOWN} :
              IF r = LDAP_SUCCESS
              THEN /\ pc' = "fetch"
                   /\ rv' = r
                   /\ lp_ld' = TRUE
                   /\ UNCHANGED <<cur, prev, reply, fail_step>>
              ELSE /\ Return(r, "ldap_open")
                   /\ UNCHANGED lp_ld
    /\ UNCHANGED <<id, timeout, lp_local_ld, master_id, notifier_id_key, transfile,
                   failed_ldif, write_transaction_file, min_mib, req_id, handed,
                   updated, run_start, top_cursor, last_reply, restarts, stat_seen,
                   idle, postrun_idle, reconnected, looked_up, hvars, rvars, fvars>>

\* variant: every reply is completed from cn=translog
LookupAlways(n) == TRUE

\* line 212: trans.cur.notify.command == '\0'
LookupNeeded(n) == n.command = NUL

\* variant: line 214 is left out, the id of the reply is kept
NextIdReported(n, last) == n.id

\* the id of the transaction to process, lines 212-219
NextId(n, last) == IF n.command = NUL THEN last + 1 ELSE n.id

(* Lines 211-219: an id-only reply is completed from cn=translog             *)
(* (notifier_wait_id_result); then id = trans.cur.notify.id.                 *)
Fetch ==
    /\ pc = "fetch"
    /\ IF LookupNeeded(cur)
       THEN \E r \in {LDAP_SUCCESS, LDAP_SERVER_DOWN, LDAP_NO_SUCH_ATTRIBUTE},
               c \in Commands :
              /\ looked_up' = NextId(cur, id)
              /\ IF r = LDAP_SUCCESS
                 THEN /\ cur' = [id |-> NextId(cur, id), command |-> c]
                      /\ id' = NextId(cur, id)
                      /\ rv' = r
                      /\ pc' = "update"
                      /\ UNCHANGED <<prev, reply, fail_step>>
                 ELSE /\ Return(r, "lookup")
                      /\ UNCHANGED id
       ELSE /\ id' = NextId(cur, id)
            /\ pc' = "update"
            /\ UNCHANGED <<rv, cur, prev, reply, fail_step, looked_up>>
    /\ UNCHANGED <<timeout, lp_ld, lp_local_ld, master_id, notifier_id_key, transfile,
                   failed_ldif, write_transaction_file, min_mib, req_id, handed,
                   updated, run_start, top_cursor, last_reply, restarts, stat_seen,
                   idle, postrun_idle, reconnected, hvars, rvars, fvars>>

-----------------------------------------------------------------------------
(* change_update_dn (change.c).  The listener only sees its result and what  *)
(* it does to trans.cur / trans.prev: it returns LDAP_SUCCESS or an error,   *)
(* and for the first half of a move (command 'r') it may stash the current   *)
(* operation in trans.prev and clear trans.cur.  Its handlers may leave the  *)
(* sentinel failed.ldif behind.                                              *)

ChangeOutcomes(c, p) ==
    {"ok", "fail"} \cup (IF c.command = "r" /\ p.command = NUL THEN {"stash"} ELSE {})

\* line 221: (rv = change_update_dn(&trans)) != LDAP_SUCCESS
ChangeFailed(r) == r # LDAP_SUCCESS

(* Lines 221-227 *)
ChangeUpdateDn ==
    /\ pc = "update"
    /\ handed' = Append(handed, cur.id)
    /\ \E outcome \in ChangeOutcomes(cur, prev), ldif \in BOOLEAN,
          err \in {LDAP_SERVER_DOWN, LDAP_NO_SUCH_ATTRIBUTE} :
         LET r == IF outcome = "fail" THEN err ELSE LDAP_SUCCESS IN
         /\ failed_ldif' = (failed_ldif \/ ldif)
         /\ updated' = IF r = LDAP_SUCCESS THEN updated \cup {cur.id} ELSE updated
         /\ IF ChangeFailed(r)
            THEN Return(r, "change_update_dn")
            ELSE /\ rv' = r
                 /\ pc' = "failed_ldif"
                 /\ cur' = IF outcome = "stash" THEN ZeroOp ELSE cur
                 /\ prev' = IF outcome = "stash" THEN cur ELSE prev
                 /\ UNCHANGED <<reply, fail_step>>
    /\ UNCHANGED <<id, timeout, lp_ld, lp_local_ld, master_id, notifier_id_key,
                   transfile, write_transaction_file, min_mib, req_id, run_start,
                   top_cursor, last_reply, restarts, stat_seen, idle, postrun_idle,
                   reconnected, looked_up, hvars, rvars, fvars>>

(* variant of CheckFailedLdif: the sentinel is not looked at                 *)
SentinelNotChecked ==
    /\ pc = "failed_ldif"
    /\ pc' = "pending"
    /\ UNCHANGED <<id, rv, timeout, reply, cur, prev, lp_ld, lp_local_ld, master_id,
                   notifier_id_key, transfile, failed_ldif, write_transaction_file,
                   min_mib, req_id, handed, updated, run_start, top_cursor, last_reply,
                   fail_step, restarts, stat_seen, idle, postrun_idle, reconnected,
                   looked_up, hvars, rvars, fvars>>

(* Lines 229-230: notifier_has_failed_ldif *)
CheckFailedLdif ==
    /\ pc = "failed_ldif"
    /\ IF failed_ldif
       THEN Return(rv, "failed_ldif")
       ELSE /\ pc' = "pending"
            /\ UNCHANGED <<rv, cur, prev, reply, fail_step>>
    /\ UNCHANGED <<id, timeout, lp_ld, lp_local_ld, master_id, notifier_id_key,
                   transfile, failed_ldif, write_transaction_file, min_mib, req_id,
                   handed, updated, run_start, top_cursor, last_reply, restarts,
                   stat_seen, idle, postrun_idle, reconnected, looked_up, hvars, rvars,
                   fvars>>

\* variant: the result of notifier_write_transaction_file is not looked at
WriteNeverFailed(w) == FALSE

\* lines 236 and 241: (rv = notifier_write_transaction_file(...)) != 0
WriteFailed(w) == w # 0

\* lines 236 and 241: the call for rec returned w; a result of 0 is recorded
Written(file, w, rec) == IF w = 0 THEN Append(file, rec) ELSE file

\* variant: the loop does not start again when the command was stashed
NeverStashedForLater(c) == FALSE

\* line 234: !trans.cur.notify.command
StashedForLater(c) == c.command = NUL

(* Lines 232-239: the current command was stashed (continue), or the stashed *)
(* command is written to the transaction file and freed.                     *)
Pending ==
    /\ pc = "pending"
    /\ IF prev.command # NUL
       THEN IF StashedForLater(cur)
            THEN /\ pc' = "top"
                 /\ UNCHANGED <<rv, cur, prev, reply, fail_step, transfile>>
            ELSE IF write_transaction_file
            THEN \E w \in {0, 1} :
                   /\ transfile' = Written(transfile, w, prev.id)
                   /\ IF WriteFailed(w)
                      THEN Return(w, "transfile_prev")
                      ELSE /\ rv' = w
                           /\ prev' = ZeroOp
                           /\ pc' = "write_cur"
                           /\ UNCHANGED <<cur, reply, fail_step>>
            ELSE /\ prev' = ZeroOp
                 /\ pc' = "write_cur"
                 /\ UNCHANGED <<rv, cur, reply, fail_step, transfile>>
       ELSE /\ pc' = "write_cur"
            /\ UNCHANGED <<rv, cur, prev, reply, fail_step, transfile>>
    /\ UNCHANGED <<id, timeout, lp_ld, lp_local_ld, master_id, notifier_id_key,
                   failed_ldif, write_transaction_file, min_mib, req_id, handed,
                   updated, run_start, top_cursor, last_reply, restarts, stat_seen,
                   idle, postrun_idle, reconnected, looked_up, hvars, rvars, fvars>>

(* variant of WriteCur: the cursor is persisted before the transaction file   *)
(* is written.                                                               *)
WriteCurAfterCommit ==
    /\ pc = "write_cur"
    /\ master_id' = id
    /\ IF write_transaction_file
       THEN \E w \in {0, 1} :
              /\ transfile' = Written(transfile, w, cur.id)
              /\ IF WriteFailed(w)
                 THEN Return(w, "transfile_cur")
                 ELSE /\ rv' = w
                      /\ pc' = "commit"
                      /\ UNCHANGED <<cur, prev, reply, fail_step>>
       ELSE /\ pc' = "commit"
            /\ UNCHANGED <<rv, cur, prev, reply, fail_step, transfile>>
    /\ UNCHANGED <<id, timeout, lp_ld, lp_local_ld, notifier_id_key, failed_ldif,
                   write_transaction_file, min_mib, req_id, handed, updated, run_start,
                   top_cursor, last_reply, restarts, stat_seen, idle, postrun_idle,
                   reconnected, looked_up, hvars, rvars, fvars>>

(* Lines 241-242: the current command is written to the transaction file.    *)
WriteCur ==
    /\ pc = "write_cur"
    /\ IF write_transaction_file
       THEN \E w \in {0, 1} :
              /\ transfile' = Written(transfile, w, cur.id)
              /\ IF WriteFailed(w)
                 THEN Return(w, "transfile_cur")
                 ELSE /\ rv' = w
                      /\ pc' = "commit"
                      /\ UNCHANGED <<cur, prev, reply, fail_step>>
       ELSE /\ pc' = "commit"
            /\ UNCHANGED <<rv, cur, prev, reply, fail_step, transfile>>
    /\ UNCHANGED <<id, timeout, lp_ld, lp_local_ld, master_id, notifier_id_key,
                   failed_ldif, write_transaction_file, min_mib, req_id, handed,
                   updated, run_start, top_cursor, last_reply, restarts, stat_seen,
                   idle, postrun_idle, reconnected, looked_up, hvars, rvars, fvars>>

(* Lines 244-245: cache_master_entry.id = id; cache_update_master_entry      *)
CommitMaster ==
    /\ pc = "commit"
    /\ master_id' = id
    /\ pc' = "commit_key"
    /\ UNCHANGED <<id, rv, timeout, reply, cur, prev, lp_ld, lp_local_ld,
                   notifier_id_key, transfile, failed_ldif, write_transaction_file,
                   min_mib, req_id, handed, updated, run_start, top_cursor, last_reply,
                   fail_step, restarts, stat_seen, idle, postrun_idle, reconnected,
                   looked_up, hvars, rvars, fvars>>

(* Lines 246-248: cache_set_int("notifier_id", id), which may fail with a    *)
(* warning only; the current operation is freed and the loop starts again.   *)
CommitKey ==
    /\ pc = "commit_key"
    /\ \E failed \in BOOLEAN :
         notifier_id_key' = IF failed THEN notifier_id_key ELSE id
    /\ cur' = ZeroOp
    /\ pc' = "top"
    /\ UNCHANGED <<id, rv, timeout, reply, prev, lp_ld, lp_local_ld, master_id,
                   transfile, failed_ldif, write_transaction_file, min_mib, req_id,
                   handed, updated, run_start, top_cursor, last_reply, fail_step,
                   restarts, stat_seen, idle, postrun_idle, reconnected, looked_up,
                   hvars, rvars, fvars>>

Running == {"top", "get_dn", "wait", "ldap_open", "fetch", "update", "failed_ldif", "pending",
            "write_cur", "commit", "commit_key"}

(* The process is killed or the machine crashes: everything but the files is *)
(* lost.                                                                     *)
Crash ==
    /\ pc \in Running
    /\ restarts <= MaxRestarts
    /\ pc' = "off"
    /\ fail_step' = "crash"
    /\ id' = 0
    /\ rv' = 0
    /\ timeout' = DELAY_LDAP_CLOSE
    /\ cur' = ZeroOp
    /\ prev' = ZeroOp
    /\ reply' = NoReply
    /\ last_reply' = NoReply
    /\ lp_ld' = FALSE
    /\ lp_local_ld' = FALSE
    /\ req_id' = 0
    /\ handed' = <<>>
    /\ stat_seen' = {}
    /\ idle' = 0
    /\ postrun_idle' = -1
    /\ reconnected' = FALSE
    /\ looked_up' = 0
    /\ UNCHANGED <<master_id, notifier_id_key, transfile, failed_ldif,
                   write_transaction_file, min_mib, updated, run_start, top_cursor,
                   restarts, hvars, rvars, fvars>>

(* The operator removes the sentinel while the listener is stopped.          *)
RemoveFailedLdif ==
    /\ pc \in {"off", "returned", "aborted"}
    /\ failed_ldif
    /\ failed_ldif' = FALSE
    /\ UNCHANGED <<pc, id, rv, timeout, reply, cur, prev, lp_ld, lp_local_ld,
                   master_id, notifier_id_key, transfile, write_transaction_file,
                   min_mib, req_id, handed, updated, run_start, top_cursor, last_reply,
                   fail_step, restarts, stat_seen, idle, postrun_idle, reconnected,
                   looked_up, hvars, rvars, fvars>>

-----------------------------------------------------------------------------
(* Part 2: the handler runtime, handlers.c                                   *)

\* at most MaxHandlers handler modules are loaded
MaxHandlers == 2

Attrs == {"uid", "sn"}
\* an attribute is absent (0) or has one of the values 1 .. MaxValue
MaxValue == 1
AttrSets == [Attrs -> 0 .. MaxValue]

NoFilter == "*"

\* handler->attributes: NULL when the module sets no list, else the list
NoAttributes == [null |-> TRUE, names |-> <<>>]
AttributeList(seq) == [null |-> FALSE, names |-> seq]

\* (handler->state & HANDLER_READY) == HANDLER_READY
Ready(h) == "HANDLER_READY" \in h.state

(* The handler modules found in the module directories: what handler_import  *)
(* reads from each of them (lines 244-313).                                  *)
HandlerFiles ==
    { [name |-> "replication", priority |-> 0, filter |-> NoFilter,
       attributes |-> NoAttributes, handle_every_delete |-> FALSE,
       modrdn |-> TRUE, prerun |-> FALSE, postrun |-> FALSE,
       initialize |-> FALSE, clean |-> FALSE, setdata |-> TRUE],
      [name |-> "replication", priority |-> 2, filter |-> "sn",
       attributes |-> AttributeList(<<"sn">>), handle_every_delete |-> FALSE,
       modrdn |-> TRUE, prerun |-> FALSE, postrun |-> FALSE,
       initialize |-> TRUE, clean |-> FALSE, setdata |-> FALSE],
      [name |-> "home", priority |-> 3, filter |-> "uid",
       attributes |-> AttributeList(<<"sn">>), handle_every_delete |-> FALSE,
       modrdn |-> FALSE, prerun |-> TRUE, postrun |-> TRUE,
       initialize |-> TRUE, clean |-> TRUE, setdata |-> TRUE],
      [name |-> "mail", priority |-> 1, filter |-> NoFilter,
       attributes |-> NoAttributes, handle_every_delete |-> TRUE,
       modrdn |-> FALSE, prerun |-> FALSE, postrun |-> FALSE,
       initialize |-> FALSE, clean |-> TRUE, setdata |-> FALSE],
      [name |-> "mail", priority |-> 1, filter |-> "uid",
       attributes |-> AttributeList(<<>>), handle_every_delete |-> FALSE,
       modrdn |-> FALSE, prerun |-> FALSE, postrun |-> FALSE,
       initialize |-> FALSE, clean |-> FALSE, setdata |-> FALSE] }

\* lines 234-327: the Handler that handler_import builds from a module and
\* from the state read from the state file of the handler
NewHandler(file, state) ==
    [name |-> file.name, priority |-> file.priority,
     filter |-> file.filter, attributes |-> file.attributes,
     handle_every_delete |-> file.handle_every_delete,
     modrdn |-> file.modrdn, prerun |-> file.prerun,
     postrun |-> file.postrun, initialize |-> file.initialize,
     clean |-> file.clean, setdata |-> file.setdata,
     state |-> state, prepared |-> FALSE]

\* an entry of the cache: its attributes and its module list
NoEntry == [present |-> FALSE, attrs |-> [a \in Attrs |-> 0], modules |-> {}]
Entry(attrs, modules) == [present |-> TRUE, attrs |-> attrs, modules |-> modules]

\* the entry as an earlier run of the listener left it in the cache, when
\* every module had handled it
CachedEntry ==
    Entry([a \in Attrs |-> 1], {file.name : file \in HandlerFiles})

NoOp == [kind |-> "none", old |-> NoEntry, new |-> NoEntry, changes |-> {},
         command |-> NUL, old_after |-> NoEntry]

-----------------------------------------------------------------------------
(* cache_entry.c and filter.c: used by handlers.c                            *)

cache_entry_module_present(entry, name) == name \in entry.modules
cache_entry_module_add(entry, name) ==
    [entry EXCEPT !.modules = entry.modules \cup {name}]
cache_entry_module_remove(entry, name) ==
    [entry EXCEPT !.modules = entry.modules \ {name}]

\* the names of the attributes whose values differ; empty iff the C array is NULL
cache_entry_changed_attributes(new, old) ==
    {a \in Attrs : new.attrs[a] # old.attrs[a]}

\* a handler without filter matches every entry; filter "x" stands for (x=*)
cache_entry_ldap_filter_match(filter, new) ==
    filter = NoFilter \/ new.attrs[filter] # 0

-----------------------------------------------------------------------------
(* Hook invocations.  An event of the log names the hook and the handler;    *)
(* drop_privileges is logged like a hook.                                    *)

\* arg4: the command that a modrdn handler gets as fourth argument, else NUL
Event(hook, name, result, arg4) ==
    [hook |-> hook, name |-> name, result |-> result, arg4 |-> arg4]
DropPrivileges == Event("drop_privileges", "", "", NUL)

\* what the Python hooks of one handler do when they are called
HookOutcomes == [pre : BOOLEAN, res : {"None", "value", "exception"}]

\* variant: the handler is inserted before the handlers of the same priority
InsertBeforeEqual(list, handler) ==
    LET later == {i \in 1 .. Len(list) : ~(list[i].priority < handler.priority)}
        ptr == IF later = {} THEN Len(list) + 1
               ELSE CHOOSE i \in later : \A j \in later : i <= j
    IN  SubSeq(list, 1, ptr - 1) \o <<handler>> \o SubSeq(list, ptr, Len(list))

\* variant: the handler becomes the head of the list whatever its priority
InsertAtHead(list, handler) == <<handler>> \o list

(* insert_handler, lines 212-220 *)
insert_handler(list, handler) ==
    LET later == {i \in 1 .. Len(list) : ~(list[i].priority <= handler.priority)}
        ptr == IF later = {} THEN Len(list) + 1
               ELSE CHOOSE i \in later : \A j \in later : i <= j
    IN  SubSeq(list, 1, ptr - 1) \o <<handler>> \o SubSeq(list, ptr, Len(list))

(* handler_prerun, lines 364-377.  ok: the prerun hook returns a result.     *)
handler_prerun(h, ok) ==
    IF h.prerun /\ ~h.prepared
    THEN IF ~ok
         THEN [rv |-> 1, handler |-> h,
               log |-> <<Event("prerun", h.name, "exception", NUL), DropPrivileges>>]
         ELSE [rv |-> 0, handler |-> [h EXCEPT !.prepared = TRUE],
               log |-> <<Event("prerun", h.name, "ok", NUL), DropPrivileges>>]
    ELSE [rv |-> 0, handler |-> [h EXCEPT !.prepared = TRUE], log |-> <<>>]

\* variant: handler_exec returns 0 whatever the handle hook did
ExecAlwaysOk(res) == 0

\* lines 438-444: the result of the call becomes the return value
ExecResult(res) ==
    IF res = "exception" THEN -1 ELSE IF res = "None" THEN 0 ELSE 1

\* variant: the state of the handler is not looked at
handler_exec_any_state(h, command, init_mode, oc) ==
    LET pre == handler_prerun(h, oc.pre)
        arg4 == IF h.modrdn THEN command ELSE NUL
    IN  [rv |-> ExecResult(oc.res),
         handler |-> pre.handler,
         log |-> pre.log \o <<Event("handle", h.name, oc.res, arg4),
                              DropPrivileges>>]

(* handler_exec, lines 412-447 *)
handler_exec(h, command, init_mode, oc) ==
    IF ~Ready(h) /\ ~init_mode
    THEN [rv |-> 1, handler |-> h, log |-> <<>>]
    ELSE LET pre == handler_prerun(h, oc.pre)
             arg4 == IF h.modrdn THEN command ELSE NUL
         IN  [rv |-> ExecResult(oc.res),
              handler |-> pre.handler,
              log |-> pre.log \o <<Event("handle", h.name, oc.res, arg4),
                                   DropPrivileges>>]

\* variant: every attribute is reported as changed
AttributeAlwaysChanged(changes, attribute) == TRUE

(* attribute_has_changed, lines 721-731 *)
attribute_has_changed(changes, attribute) == attribute \in changes

\* variant: a handler without attributes has none that changed
NoListedAttributeChanged(h, changes) ==
    \A i \in 1 .. Len(h.attributes.names) :
        ~attribute_has_changed(changes, h.attributes.names[i])

\* lines 754-758: the attributes list is not empty and none of them changed
NoAttributeChanged(h, changes) ==
    /\ ~h.attributes.null
    /\ \A i \in 1 .. Len(h.attributes.names) :
          ~attribute_has_changed(changes, h.attributes.names[i])
    /\ Len(h.attributes.names) > 0

\* variant: the handler replication is taken as up to date like the others
UpToDateAlsoReplication(h, old, changes) ==
    /\ cache_entry_module_present(old, h.name)
    /\ (changes = {} \/ NoAttributeChanged(h, changes))

\* variant: a handler is taken as up to date whether or not the old entry
\* lists it
UpToDateNotListed(h, old, changes) ==
    /\ h.name # "replication"
    /\ (changes = {} \/ NoAttributeChanged(h, changes))

\* variant: without the test for "nothing has changed" of lines 750-753
UpToDateByAttributes(h, old, changes) ==
    /\ h.name # "replication"
    /\ cache_entry_module_present(old, h.name)
    /\ NoAttributeChanged(h, changes)

\* variant: no handler is taken as up to date
NeverUpToDate(h, old, changes) == FALSE

\* lines 746-762
UpToDate(h, old, changes) ==
    /\ h.name # "replication"
    /\ cache_entry_module_present(old, h.name)
    /\ (changes = {} \/ NoAttributeChanged(h, changes))

\* variant: the filter of the handler is not looked at
UpdateWithoutFilter(h, new, old, command, changes, init_mode, oc) ==
    IF UpToDate(h, old, changes)
    THEN [rv |-> 0, new |-> cache_entry_module_add(new, h.name), handler |-> h,
          log |-> <<>>]
    ELSE LET x == handler_exec(h, command, init_mode, oc)
         IN  IF x.rv = 0
             THEN [rv |-> 0, new |-> cache_entry_module_add(new, h.name),
                   handler |-> x.handler, log |-> x.log]
             ELSE [rv |-> 1, new |-> new, handler |-> x.handler, log |-> x.log]

(* handler__update, lines 735-788.  The result holds the return value, the  *)
(* new entry (its module list may have grown), the handler and the log.     *)
handler__update(h, new, old, command, changes, init_mode, oc) ==
    IF UpToDate(h, old, changes)
    THEN [rv |-> 0, new |-> cache_entry_module_add(new, h.name), handler |-> h,
          log |-> <<>>]
    ELSE IF ~cache_entry_ldap_filter_match(h.filter, new)
    THEN [rv |-> 0, new |-> new, handler |-> h, log |-> <<>>]
    ELSE LET x == handler_exec(h, command, init_mode, oc)
         IN  IF x.rv = 0
             THEN [rv |-> 0, new |-> cache_entry_module_add(new, h.name),
                   handler |-> x.handler, log |-> x.log]
             ELSE [rv |-> 1, new |-> new, handler |-> x.handler, log |-> x.log]

RECURSIVE Ascending(_)
Ascending(S) ==
    IF S = {} THEN <<>>
    ELSE LET m == CHOOSE i \in S : \A j \in S : i <= j
         IN  <<m>> \o Ascending(S \ {m})

\* the positions of the list that the first and the second loop of
\* handlers_update visit, in the order of the visits (lines 801-810)
UpdateOrder(list) ==
    Ascending({i \in 1 .. Len(list) : list[i].name = "replication"})
    \o Ascending({i \in 1 .. Len(list) : list[i].name # "replication"})

RECURSIVE UpdateLoop(_, _, _, _, _, _, _, _)
UpdateLoop(st, order, k, old, command, changes, init_mode, ocs) ==
    IF k > Len(order) THEN st
    ELSE LET i == order[k]
             h == st.handlers[i]
             r == handler__update(h, st.new, old, command, changes, init_mode,
                                  ocs[h.name])
         IN  UpdateLoop([handlers |-> [st.handlers EXCEPT ![i] = r.handler],
                         new |-> r.new,
                         log |-> st.log \o r.log],
                        order, k + 1, old, command, changes, init_mode, ocs)

(* handlers_update, lines 792-814: the return values of handler__update are *)
(* not used, rv stays 0.                                                     *)
handlers_update(list, new, old, command, init_mode, ocs) ==
    LET changes == cache_entry_changed_attributes(new, old)
        st == UpdateLoop([handlers |-> list, new |-> new, log |-> <<>>],
                         UpdateOrder(list), 1, old, command, changes,
                         init_mode, ocs)
    IN  [rv |-> 0, handlers |-> st.handlers, new |-> st.new, log |-> st.log]

\* variant: no handler is skipped on a delete
NeverSkipped(h, old) == FALSE

\* line 843: the handler is skipped
DeleteSkipped(h, old) ==
    /\ ~cache_entry_module_present(old, h.name)
    /\ h.name # "replication"
    /\ ~h.handle_every_delete

\* variant: the loop over the handlers ends at the first handler that fails
RECURSIVE DeleteUntilFailure(_, _, _, _, _)
DeleteUntilFailure(st, i, command, init_mode, ocs) ==
    IF i > Len(st.handlers) \/ st.rv # 0 THEN st
    ELSE LET h == st.handlers[i]
         IN  IF DeleteSkipped(h, st.old)
             THEN DeleteUntilFailure(st, i + 1, command, init_mode, ocs)
             ELSE LET x == handler_exec(h, command, init_mode, ocs[h.name])
                  IN  DeleteUntilFailure(
                        [handlers |-> [st.handlers EXCEPT ![i] = x.handler],
                         old |-> IF x.rv = 0
                                 THEN cache_entry_module_remove(st.old, h.name)
                                 ELSE st.old,
                         log |-> st.log \o x.log,
                         rv |-> IF x.rv = 0 THEN st.rv ELSE 1],
                        i + 1, command, init_mode, ocs)

RECURSIVE DeleteLoop(_, _, _, _, _)
DeleteLoop(st, i, command, init_mode, ocs) ==
    IF i > Len(st.handlers) THEN st
    ELSE LET h == st.handlers[i]
         IN  IF DeleteSkipped(h, st.old)
             THEN DeleteLoop(st, i + 1, command, init_mode, ocs)
             ELSE LET x == handler_exec(h, command, init_mode, ocs[h.name])
                  IN  DeleteLoop(
                        [handlers |-> [st.handlers EXCEPT ![i] = x.handler],
                         old |-> IF x.rv = 0
                                 THEN cache_entry_module_remove(st.old, h.name)
                                 ELSE st.old,
                         log |-> st.log \o x.log,
                         rv |-> IF x.rv = 0 THEN st.rv ELSE 1],
                        i + 1, command, init_mode, ocs)

\* variant: handlers_delete returns 0 whatever the handlers did
handlers_delete_returns_0(list, old, command, init_mode, ocs) ==
    [DeleteLoop([handlers |-> list, old |-> old, log |-> <<>>, rv |-> 0],
                1, command, init_mode, ocs) EXCEPT !.rv = 0]

(* handlers_delete, lines 835-857 *)
handlers_delete(list, old, command, init_mode, ocs) ==
    DeleteLoop([handlers |-> list, old |-> old, log |-> <<>>, rv |-> 0],
               1, command, init_mode, ocs)

\* variant: the postrun hook is called whether or not the handler is prepared
handler_postrun_unprepared(h, ok) ==
    IF h.postrun
    THEN IF ~ok
         THEN [rv |-> 1, handler |-> h,
               log |-> <<Event("postrun", h.name, "exception", NUL),
                         DropPrivileges>>]
         ELSE [rv |-> 0, handler |-> [h EXCEPT !.prepared = FALSE],
               log |-> <<Event("postrun", h.name, "ok", NUL), DropPrivileges>>]
    ELSE [rv |-> 0, handler |-> [h EXCEPT !.prepared = FALSE], log |-> <<>>]

(* handler_postrun, lines 381-397.  ok: the postrun hook returns a result.   *)
handler_postrun(h, ok) ==
    IF ~h.prepared
    THEN [rv |-> 0, handler |-> h, log |-> <<>>]
    ELSE IF h.postrun
    THEN IF ~ok
         THEN [rv |-> 1, handler |-> h,
               log |-> <<Event("postrun", h.name, "exception", NUL),
                         DropPrivileges>>]
         ELSE [rv |-> 0, handler |-> [h EXCEPT !.prepared = FALSE],
               log |-> <<Event("postrun", h.name, "ok", NUL), DropPrivileges>>]
    ELSE [rv |-> 0, handler |-> [h EXCEPT !.prepared = FALSE], log |-> <<>>]

RECURSIVE PostrunLoop(_, _, _)
PostrunLoop(st, i, oks) ==
    IF i > Len(st.handlers) THEN st
    ELSE LET r == handler_postrun(st.handlers[i], oks[st.handlers[i].name])
         IN  PostrunLoop([handlers |-> [st.handlers EXCEPT ![i] = r.handler],
                          log |-> st.log \o r.log], i + 1, oks)

(* handlers_postrun_all, lines 401-408 *)
handlers_postrun_all(list, oks) ==
    PostrunLoop([handlers |-> list, log |-> <<>>], 1, oks)

\* the logs of the calls of one loop over the handler list, in order
RECURSIVE Flatten(_)
Flatten(logs) ==
    IF logs = <<>> THEN <<>> ELSE Head(logs) \o Flatten(Tail(logs))

\* variant: privileges are dropped only when the clean hook returned a result
handler_clean_drop_on_result(h, ok) ==
    IF ~h.clean
    THEN [rv |-> 0, log |-> <<>>]
    ELSE IF ~ok
    THEN [rv |-> 1, log |-> <<Event("clean", h.name, "exception", NUL)>>]
    ELSE [rv |-> 0, log |-> <<Event("clean", h.name, "ok", NUL), DropPrivileges>>]

(* handler_clean, lines 451-466.  ok: the clean hook returns a result.       *)
handler_clean(h, ok) ==
    IF ~h.clean
    THEN [rv |-> 0, log |-> <<>>]
    ELSE IF ~ok
    THEN [rv |-> 1, log |-> <<Event("clean", h.name, "exception", NUL),
                              DropPrivileges>>]
    ELSE [rv |-> 0, log |-> <<Event("clean", h.name, "ok", NUL), DropPrivileges>>]

(* handlers_clean_all, lines 470-476 *)
handlers_clean_all(list, oks) ==
    [rv |-> 0,
     log |-> Flatten([i \in 1 .. Len(list) |->
                         handler_clean(list[i], oks[list[i].name]).log])]

(* handler_initialize, lines 480-494.  ok: the hook returns a result.        *)
handler_initialize(h, ok) ==
    IF ~h.initialize
    THEN [rv |-> 0, log |-> <<>>]
    ELSE IF ~ok
    THEN [rv |-> 1, log |-> <<Event("initialize", h.name, "exception", NUL),
                              DropPrivileges>>]
    ELSE [rv |-> 0, log |-> <<Event("initialize", h.name, "ok", NUL),
                              DropPrivileges>>]

(* handlers_initialize_all, lines 498-504 *)
handlers_initialize_all(list, oks) ==
    [rv |-> 0,
     log |-> Flatten([i \in 1 .. Len(list) |->
                         handler_initialize(list[i], oks[list[i].name]).log])]

(* handler_set_data, lines 867-891.  res: what the setdata hook does.        *)
handler_set_data(h, res) ==
    IF ~h.setdata
    THEN [rv |-> 0, log |-> <<>>]
    ELSE [rv |-> IF res = "exception" THEN -1 ELSE IF res = "None" THEN 0 ELSE 1,
          log |-> <<Event("setdata", h.name, res, NUL), DropPrivileges>>]

(* handlers_set_data_all, lines 895-922: 0 without handlers, else 1 whatever *)
(* the hooks returned.                                                       *)
handlers_set_data_all(list, ress) ==
    [rv |-> IF list = <<>> THEN 0 ELSE 1,
     log |-> Flatten([i \in 1 .. Len(list) |->
                         handler_set_data(list[i], ress[list[i].name]).log])]

-----------------------------------------------------------------------------
(* The operations on the handler runtime                                     *)

Names(list) == {list[i].name : i \in 1 .. Len(list)}

\* the handlers whose handle hook is called in the log
Dispatched(log) ==
    {log[k].name : k \in {j \in 1 .. Len(log) : log[j].hook = "handle"}}

\* the handlers whose postrun has succeeded: the hook returned a result, or
\* there is no hook to call
PostrunDone(list, log) ==
    {list[i].name : i \in {j \in 1 .. Len(list) : ~list[j].postrun}}
    \cup {log[k].name : k \in {j \in 1 .. Len(log) :
                                  log[j].hook = "postrun" /\ log[j].result = "ok"}}

\* what the hooks of the loaded handlers do in one operation; a handler
\* without prerun hook has no prerun that could fail
Outcomes(list) ==
    {ocs \in [Names(list) -> HookOutcomes] :
        \A i \in 1 .. Len(list) : ~list[i].prerun => ocs[list[i].name].pre}

PostrunOutcomes(list) ==
    {oks \in [Names(list) -> BOOLEAN] :
        \A i \in 1 .. Len(list) : ~list[i].postrun => oks[list[i].name]}

\* what the hook named field does in one call of a loop over all handlers; a
\* handler without the hook has none that could raise an exception
OkOutcomes(list, field) ==
    {oks \in [Names(list) -> BOOLEAN] :
        \A i \in 1 .. Len(list) : ~list[i][field] => oks[list[i].name]}

SetDataOutcomes(list) ==
    {ress \in [Names(list) -> {"None", "value", "exception"}] :
        \A i \in 1 .. Len(list) : ~list[i].setdata => ress[list[i].name] = "None"}

(* handler_import, lines 224-359: the module is read, the state file of the  *)
(* handler is read (state 0 when there is none), the handler is inserted.    *)
Import ==
    /\ hpc = "load"
    /\ Len(handlers) < MaxHandlers
    /\ \E file \in HandlerFiles, state \in {{}, {"HANDLER_READY"}} :
         /\ file.name \notin Names(handlers)
         /\ handlers' = insert_handler(handlers, NewHandler(file, state))
    /\ UNCHANGED <<cache, hpc, hlog, hrv, hop, INIT_ONLY, failed_before, dispatched,
                   lvars, rvars, fvars>>

(* The modules are loaded: the listener starts to process transactions.      *)
StartRun ==
    /\ hpc = "load"
    /\ hpc' = "idle"
    /\ UNCHANGED <<handlers, cache, hlog, hrv, hop, INIT_ONLY, failed_before,
                   dispatched, lvars, rvars, fvars>>

(* change.c, update of an entry: the new entry comes from LDAP with an empty *)
(* module list, the old one from the cache; handlers_update runs; the new    *)
(* entry is written to the cache.                                            *)
Update ==
    /\ hpc = "idle"
    /\ \E attrs \in AttrSets, ocs \in Outcomes(handlers) :
         LET old == cache
             new == Entry(attrs, {})
             command == IF cache.present THEN "m" ELSE "a"
             r == handlers_update(handlers, new, old, command, INIT_ONLY, ocs)
         IN  /\ handlers' = r.handlers
             /\ cache' = r.new
             /\ hlog' = r.log
             /\ hrv' = r.rv
             /\ dispatched' = dispatched \cup Dispatched(r.log)
             /\ hop' = [kind |-> "update", old |-> old, new |-> new,
                        changes |-> cache_entry_changed_attributes(new, old),
                        command |-> command, old_after |-> old]
    /\ hpc' = "done"
    /\ UNCHANGED <<INIT_ONLY, failed_before, lvars, rvars, fvars>>

(* change.c, deletion of an entry: handlers_delete runs on the cached entry; *)
(* the entry is removed from the cache when every handler succeeded and is   *)
(* written back with the remaining module list otherwise.                    *)
Delete ==
    /\ hpc = "idle"
    /\ cache.present
    /\ \E ocs \in Outcomes(handlers) :
         LET r == handlers_delete(handlers, cache, "d", INIT_ONLY, ocs)
         IN  /\ handlers' = r.handlers
             /\ cache' = IF r.rv = 0 THEN NoEntry ELSE r.old
             /\ hlog' = r.log
             /\ hrv' = r.rv
             /\ dispatched' = dispatched \cup Dispatched(r.log)
             /\ hop' = [kind |-> "delete", old |-> cache, new |-> NoEntry,
                        changes |-> {}, command |-> "d", old_after |-> r.old]
    /\ hpc' = "done"
    /\ UNCHANGED <<INIT_ONLY, failed_before, lvars, rvars, fvars>>

(* notifier_listen line 180: the wait timed out, the postrun handlers run.   *)
Postrun ==
    /\ hpc = "idle"
    /\ \E oks \in PostrunOutcomes(handlers) :
         LET r == handlers_postrun_all(handlers, oks)
         IN  /\ handlers' = r.handlers
             /\ hlog' = r.log
             /\ dispatched' = dispatched \ PostrunDone(handlers, r.log)
    /\ hrv' = 0
    /\ hop' = [NoOp EXCEPT !.kind = "postrun"]
    /\ hpc' = "done"
    /\ UNCHANGED <<cache, INIT_ONLY, failed_before, lvars, rvars, fvars>>

(* main.c: the initialize hooks of all handlers are called.                  *)
InitializeAll ==
    /\ hpc = "idle"
    /\ \E oks \in OkOutcomes(handlers, "initialize") :
         LET r == handlers_initialize_all(handlers, oks)
         IN  /\ hlog' = r.log
             /\ hrv' = r.rv
    /\ hop' = [NoOp EXCEPT !.kind = "initialize"]
    /\ hpc' = "done"
    /\ UNCHANGED <<handlers, cache, INIT_ONLY, failed_before, dispatched, lvars, rvars, fvars>>

(* main.c: the clean hooks of all handlers are called.                       *)
CleanAll ==
    /\ hpc = "idle"
    /\ \E oks \in OkOutcomes(handlers, "clean") :
         LET r == handlers_clean_all(handlers, oks)
         IN  /\ hlog' = r.log
             /\ hrv' = r.rv
    /\ hop' = [NoOp EXCEPT !.kind = "clean"]
    /\ hpc' = "done"
    /\ UNCHANGED <<handlers, cache, INIT_ONLY, failed_before, dispatched, lvars, rvars, fvars>>

(* main.c: a configuration value is passed to the setdata hooks.             *)
SetDataAll ==
    /\ hpc = "idle"
    /\ \E ress \in SetDataOutcomes(handlers) :
         LET r == handlers_set_data_all(handlers, ress)
         IN  /\ hlog' = r.log
             /\ hrv' = r.rv
    /\ hop' = [NoOp EXCEPT !.kind = "setdata"]
    /\ hpc' = "done"
    /\ UNCHANGED <<handlers, cache, INIT_ONLY, failed_before, dispatched, lvars, rvars, fvars>>

\* the handlers whose handle hook was called and did not return None
FailedHandles(log) ==
    {log[k].name : k \in {j \in 1 .. Len(log) :
                             log[j].hook = "handle" /\ log[j].result # "None"}}

(* The operation has returned to its caller.                                 *)
Finish ==
    /\ hpc = "done"
    /\ hpc' = "idle"
    /\ hlog' = <<>>
    /\ hrv' = 0
    /\ hop' = NoOp
    /\ failed_before' = IF hop.kind = "update" THEN FailedHandles(hlog)
                        ELSE IF hop.kind = "delete" THEN {}
                        ELSE failed_before
    /\ UNCHANGED <<handlers, cache, INIT_ONLY, dispatched, lvars, rvars, fvars>>

-----------------------------------------------------------------------------
(* Part 3: loading and freeing the handlers; the state files                 *)
(* cache/handlers/<name>                                                     *)

\* at most MaxLoaded modules are found in the module directories
MaxLoaded == 3
\* a module sets its priority to one of 0 .. MaxPriority
MaxPriority == 1

HandlerNames == {file.name : file \in HandlerFiles}

\* the modules as the directories may hold them: each with any priority
ModuleFiles ==
    {[file EXCEPT !.priority = p] : file \in HandlerFiles, p \in 0 .. MaxPriority}

\* handlers.h: the bit of handler->state that line 417 tests
HANDLER_READY == 2

\* handler->state as the unsigned number that the C code holds
StateValue(state) == IF "HANDLER_READY" \in state THEN HANDLER_READY ELSE 0

\* the bits that are set in the number
StateBits(n) ==
    IF (n \div HANDLER_READY) % 2 = 1 THEN {"HANDLER_READY"} ELSE {}

\* a state file: absent, or its text as a sequence of characters
NoFile == [exists |-> FALSE, text |-> <<>>]
File(text) == [exists |-> TRUE, text |-> text]

Digits == <<"0", "1", "2", "3", "4", "5", "6", "7", "8", "9">>
IsDigit(ch) == \E d \in 1 .. 10 : Digits[d] = ch
DigitValue(ch) == (CHOOSE d \in 1 .. 10 : Digits[d] = ch) - 1

\* line 566: fprintf(state_fp, "%d", handler->state), for a state >= 0
RECURSIVE FormatD(_)
FormatD(n) ==
    IF n < 10 THEN <<Digits[n + 1]>>
    ELSE FormatD(n \div 10) \o <<Digits[(n % 10) + 1]>>

\* the value of the leading decimal digits of the text (the texts that
\* handler_write_state writes are far below the range of unsigned int)
RECURSIVE ScanDigits(_, _)
ScanDigits(text, acc) ==
    IF text = <<>> \/ ~IsDigit(Head(text)) THEN acc
    ELSE ScanDigits(Tail(text), acc * 10 + DigitValue(Head(text)))

\* line 323: fscanf(state_fp, "%u", &handler->state): EOF (-1) for an empty
\* file, 0 when the text does not start with a number, else 1 and the number
ScanU(text) ==
    IF text = <<>> THEN [rv |-> -1, value |-> 0]
    ELSE IF ~IsDigit(Head(text)) THEN [rv |-> 0, value |-> 0]
    ELSE [rv |-> 1, value |-> ScanDigits(text, 0)]

\* handler_import, lines 315-327: the state is 0 when there is no state file,
\* and stays 0 (line 236) when fscanf did not read a number
handler_read_state(file) ==
    IF ~file.exists THEN {}
    ELSE LET r == ScanU(file.text)
         IN  IF r.rv = 1 THEN StateBits(r.value) ELSE {}

\* what happens to the state file in handler_write_state: it is written and
\* closed, fopen fails, or fclose fails
WriteOutcomes == {"written", "not_opened", "close_failed"}

\* variant: the state file is opened for appending
handler_write_state_append(file, h, outcome) ==
    IF outcome = "not_opened" THEN file
    ELSE IF outcome = "close_failed" THEN File(file.text)
    ELSE File(file.text \o FormatD(StateValue(h.state)))

\* handler_write_state, lines 552-571: the state file after the call.  When
\* fopen fails the error is logged and the file stays as it is; when fclose
\* fails the file was truncated by fopen and the text did not reach it.
handler_write_state(file, h, outcome) ==
    IF outcome = "not_opened" THEN file
    ELSE IF outcome = "close_failed" THEN File(<<>>)
    ELSE File(FormatD(StateValue(h.state)))

\* no handler_free has run for the handler since it was loaded last
NotFreed == [freed |-> FALSE, state |-> {}, outcome |-> "none"]

\* handlers_free_all, lines 609-620, with handler_free, lines 575-605: the
\* handlers are taken from the head of the list, the state of each is
\* written; abort_io ends the process when fclose fails.
RECURSIVE FreeLoop(_, _, _)
FreeLoop(st, list, ocs) ==
    IF list = <<>> THEN st
    ELSE LET h == Head(list)
             o == ocs[h.name]
             next == [files |-> [st.files EXCEPT ![h.name] =
                                    handler_write_state(@, h, o)],
                      freed |-> [st.freed EXCEPT ![h.name] =
                                    [freed |-> TRUE, state |-> h.state,
                                     outcome |-> o]]]
         IN  IF o = "close_failed" THEN next
             ELSE FreeLoop(next, Tail(list), ocs)

handlers_free_all(list, files, history, ocs) ==
    FreeLoop([files |-> files, freed |-> history], list, ocs)

(* handlers_load_path, lines 518-528: handler_import for one more module of  *)
(* the directory.  The state is read from the state file of the handler and  *)
(* the handler is inserted into the list.                                    *)
LoadModule ==
    /\ hpc = "load"
    /\ Len(handlers) < MaxLoaded
    /\ \E file \in ModuleFiles :
         /\ file.name \notin Names(handlers)
         /\ handlers' = insert_handler(handlers,
                NewHandler(file, handler_read_state(state_files[file.name])))
         /\ loaded' = Append(loaded, file.name)
         /\ freed' = [freed EXCEPT ![file.name] = NotFreed]
    /\ UNCHANGED <<state_files, cache, hpc, hlog, hrv, hop, INIT_ONLY, failed_before,
                   dispatched, lvars, rvars>>

(* main.c: a handler that was initialised becomes ready, and its state is    *)
(* written at once.  abort_io ends the process when fclose fails.            *)
MarkReady ==
    /\ hpc = "idle"
    /\ \E i \in 1 .. Len(handlers), o \in WriteOutcomes :
         LET h == [handlers[i] EXCEPT !.state = @ \cup {"HANDLER_READY"}]
         IN  /\ ~Ready(handlers[i])
             /\ state_files' = [state_files EXCEPT ![h.name] =
                                   handler_write_state(@, h, o)]
             /\ IF o = "close_failed"
                THEN /\ handlers' = <<>>
                     /\ loaded' = <<>>
                     /\ hpc' = "load"
                ELSE /\ handlers' = [handlers EXCEPT ![i] = h]
                     /\ UNCHANGED <<loaded, hpc>>
    /\ UNCHANGED <<freed, cache, hlog, hrv, hop, INIT_ONLY, failed_before, dispatched,
                   lvars, rvars>>

(* handlers_free_all at shutdown, or as the first half of                    *)
(* handlers_reload_all_paths (lines 624-627): every handler is freed, its    *)
(* state written; the modules are loaded again afterwards.                   *)
FreeAll ==
    /\ hpc = "idle"
    /\ \E ocs \in [Names(handlers) -> WriteOutcomes] :
         LET r == handlers_free_all(handlers, state_files, freed, ocs)
         IN  /\ state_files' = r.files
             /\ freed' = r.freed
    /\ handlers' = <<>>
    /\ loaded' = <<>>
    /\ hpc' = "load"
    /\ UNCHANGED <<cache, hlog, hrv, hop, INIT_ONLY, failed_before, dispatched,
                   lvars, rvars>>

-----------------------------------------------------------------------------
(* utils.h (src/unnamed/part_000): the statement expressions LDAP_RETRY,     *)
(* NOTIFIER_RETRY and NOTIFIER_CLIENT_NEW_RETRY.                             *)

Macros == {"LDAP_RETRY", "NOTIFIER_RETRY", "NOTIFIER_CLIENT_NEW_RETRY"}

\* what cmd may yield: an LDAP result code, or 0 / not 0 from the notifier client
CmdResults(m) ==
    IF m = "LDAP_RETRY"
    THEN {LDAP_SUCCESS, LDAP_SERVER_DOWN, LDAP_NO_SUCH_ATTRIBUTE}
    ELSE {0, 1}

\* lines 46, 75, 106: the result that leaves the loop with break
RetryBreak(m, r) ==
    IF m = "LDAP_RETRY" THEN r # LDAP_SERVER_DOWN ELSE r = 0

\* variant: the shift is not capped
DelayUncapped(retry) == 2 ^ retry

\* lines 56, 87, 108: _delay = 1 << (_retry < 5 ? _retry : 5)
Delay(retry) == 2 ^ (IF retry < 5 THEN retry ELSE 5)

\* variant: a limit of 0 does not end the loops
RetryLeftOrUnlimited(retry, limit) == limit = 0 \/ retry < limit

\* lines 55, 57, 64 (84, 88, 95; 109, 117): _retry < ldap_retries
RetryLeft(retry, limit) == retry < limit

\* lines 56-62, 87-93, 108-114: the delay is computed, _retry is incremented,
\* and the macro sleeps if the limit is not reached
Backoff ==
    /\ m_delay' = Delay(m_retry)
    /\ m_retry' = m_retry + 1
    /\ delays' = Append(delays, Delay(m_retry))
    /\ slept' = IF RetryLeft(m_retry + 1, retries)
                THEN Append(slept, Delay(m_retry)) ELSE slept

(* Lines 45-54, 74-83, 105-117: cmd is evaluated.  A result other than       *)
(* "server down" (LDAP) or 0 (notifier) leaves the macro.  Otherwise         *)
(* LDAP_RETRY and NOTIFIER_RETRY go on to reconnect if _retry is below the   *)
(* limit and leave if it is not; NOTIFIER_CLIENT_NEW_RETRY, whose cmd is the *)
(* connection attempt, backs off and evaluates cmd again below the limit.    *)
RetryCmd ==
    /\ rpc = "cmd"
    /\ evals < MaxEvals
    /\ evals' = evals + 1
    /\ \E r \in CmdResults(macro) :
         /\ m_rv' = r
         /\ IF RetryBreak(macro, r)
            THEN /\ rpc' = "done"
                 /\ UNCHANGED <<m_retry, m_delay, delays, slept>>
            ELSE IF macro = "NOTIFIER_CLIENT_NEW_RETRY"
            THEN /\ Backoff
                 /\ rpc' = IF RetryLeft(m_retry + 1, retries) THEN "cmd" ELSE "done"
            ELSE /\ rpc' = IF RetryLeft(m_retry, retries) THEN "connect" ELSE "done"
                 /\ UNCHANGED <<m_retry, m_delay, delays, slept>>
    /\ UNCHANGED <<macro, retries, connects, lvars, hvars, fvars>>

(* Lines 55-64, 84-95: with _retry below the limit univention_ldap_open      *)
(* (notifier_client_new) is called.  If it succeeds cmd is evaluated again;  *)
(* if it fails the macro backs off and tries again below the limit, and      *)
(* leaves with the last result of cmd when the limit is reached.             *)
RetryConnect ==
    /\ rpc = "connect"
    /\ connects' = connects + 1
    /\ \E opened \in BOOLEAN :
         IF opened
         THEN /\ rpc' = "cmd"
              /\ UNCHANGED <<m_retry, m_delay, delays, slept>>
         ELSE /\ Backoff
              /\ rpc' = IF RetryLeft(m_retry + 1, retries) THEN "connect" ELSE "done"
    /\ UNCHANGED <<macro, retries, m_rv, evals, lvars, hvars, fvars>>

-----------------------------------------------------------------------------
(* Properties of notifier_listen (specification Spec)                        *)

\* the steps of notifier_listen that fail without retry
FatalSteps == {"ordering", "ldap_open", "lookup", "change_update_dn",
               "transfile_prev", "transfile_cur"}

\* the transaction handed last to change_update_dn in this run; the persisted
\* cursor at the start of the run when there is none
LastHanded == IF handed = <<>> THEN run_start ELSE handed[Len(handed)]

\* the id is one for which change_update_dn succeeded and, when the transaction
\* file is enabled, one for which notifier_write_transaction_file returned 0
Completed(n) ==
    /\ n \in updated
    /\ write_transaction_file => \E i \in 1 .. Len(transfile) : transfile[i] = n

\* a step of the running process other than a crash
ProcessStep == pc' # pc /\ fail_step' # "crash"

\* nothing is handed to change_update_dn, nothing is written
NothingWritten ==
    UNCHANGED <<master_id, notifier_id_key, transfile, handed, updated, failed_ldif>>

(* C1: the persisted cursor (cache_master_entry.id and the key notifier_id)  *)
(* only ever names a transaction for which change_update_dn returned success *)
(* and, with write_transaction_file, whose record was appended.              *)
C1_CursorAfterCompletion ==
    /\ master_id # 0 => Completed(master_id)
    /\ notifier_id_key # 0 => Completed(notifier_id_key)

C1_Witness ==
    /\ pc = "top"
    /\ write_transaction_file
    /\ master_id = 2
    /\ notifier_id_key = 2
    /\ handed = <<1, 2>>

(* C2: when notifier_listen has stopped at the ordering check, the LDAP      *)
(* open, the translog lookup, change_update_dn or a transaction file write,  *)
(* its result is not 0 and the persisted cursor is the one the iteration     *)
(* started with, a completed transaction.                                    *)
C2_FailureKeepsCursor ==
    (pc = "returned" /\ fail_step \in FatalSteps) =>
        /\ rv # 0
        /\ master_id = top_cursor
        /\ notifier_id_key <= master_id
        /\ master_id # 0 => Completed(master_id)

C2_Witness ==
    /\ pc = "returned"
    /\ fail_step = "transfile_cur"
    /\ master_id = 1
    /\ handed = <<2>>
    /\ 2 \in updated

(* C3: in one run the transactions handed to change_update_dn are            *)
(* start+1, start+2, ... without gap or repetition, whether the notifier     *)
(* replied with dn and command or with an id only.                           *)
C3_HandedInOrder ==
    \A i \in 1 .. Len(handed) : handed[i] = run_start + i

C3_Witness ==
    /\ pc = "failed_ldif"
    /\ Len(handed) = 2
    /\ last_reply.command = NUL
    /\ last_reply.id > handed[2]

(* C4: a started notifier_listen first asks for the persisted cursor + 1 and *)
(* first hands the transaction persisted cursor + 1 to change_update_dn.     *)
C4_ResumeAtCursor ==
    /\ run_start <= master_id
    /\ (pc = "wait" /\ handed = <<>>) =>
           (req_id = master_id + 1 /\ run_start = master_id)
    /\ handed # <<>> => handed[1] = run_start + 1

C4_Witness ==
    /\ restarts = 2
    /\ run_start = 1
    /\ notifier_id_key = 0
    /\ handed = <<2>>

(* C5, as stated: whenever a GET_ID request is outstanding it asked for the  *)
(* persisted cursor + 1.                                                     *)
C5_RequestsCursorPlusOne ==
    pc = "wait" => req_id = master_id + 1

(* C5, amended: every GET_ID request asks for the id after the transaction   *)
(* handed last to change_update_dn in this run (after the persisted cursor   *)
(* when none was handed); that is the persisted cursor + 1 unless a command  *)
(* is stashed in trans.prev.                                                 *)
C5_RequestsLastHandedPlusOne ==
    pc = "wait" =>
        /\ req_id = LastHanded + 1
        /\ prev.command = NUL => req_id = master_id + 1

C5_Witness ==
    /\ pc = "wait"
    /\ timeout = DELAY_ALIVE
    /\ prev.command = "r"
    /\ master_id = 1
    /\ req_id = 3

(* C6, as stated: a reply with a command and an id other than the persisted  *)
(* cursor + 1 makes notifier_listen return non-zero, nothing handed to       *)
(* change_update_dn and nothing written.                                     *)
C6_RejectsNotCursorPlusOne ==
    [][(/\ pc = "wait"
        /\ reply # NoReply
        /\ reply.command # NUL
        /\ reply.id # master_id + 1
        /\ ProcessStep)
       => (pc' = "returned" /\ rv' # 0 /\ NothingWritten)]_vars

(* C6, amended: a reply with a command and an id other than the id after the *)
(* transaction handed last (the persisted cursor + 1 unless a command is     *)
(* stashed) makes notifier_listen return non-zero, nothing handed to         *)
(* change_update_dn and nothing written.                                     *)
C6_RejectsNotLastHandedPlusOne ==
    [][(/\ pc = "wait"
        /\ reply # NoReply
        /\ reply.command # NUL
        /\ reply.id # LastHanded + 1
        /\ ProcessStep)
       => (pc' = "returned" /\ rv' # 0 /\ NothingWritten)]_vars

C6_Witness ==
    /\ pc = "returned"
    /\ fail_step = "ordering"
    /\ rv = 1
    /\ master_id = 1
    /\ last_reply = [id |-> 3, command |-> "m"]

(* C7, as stated: notifier_listen does not stop at the ordering check for a  *)
(* reply whose id equals the persisted cursor.                               *)
C7_EqualIdKeepsRunning ==
    ~(pc = "returned" /\ fail_step = "ordering" /\ last_reply.id = master_id)

(* C7, amended: a reply whose id equals the persisted cursor makes           *)
(* notifier_listen return 1; nothing is handed to change_update_dn and       *)
(* nothing is written.                                                       *)
C7_EqualIdStops ==
    [][(/\ pc = "wait"
        /\ reply # NoReply
        /\ reply.id = master_id
        /\ ProcessStep)
       => (pc' = "returned" /\ rv' = 1 /\ NothingWritten)]_vars

C7_Witness ==
    /\ pc = "returned"
    /\ fail_step = "ordering"
    /\ rv = 1
    /\ master_id = 2
    /\ last_reply.id = 2
    /\ handed = <<>>

-----------------------------------------------------------------------------
(* Properties of the handler runtime (specification SpecHandlers)            *)

AfterUpdate == hpc = "done" /\ hop.kind = "update"
AfterDelete == hpc = "done" /\ hop.kind = "delete"

\* the positions of the log at which a handle hook was called
Handles == {k \in 1 .. Len(hlog) : hlog[k].hook = "handle"}

Invoked == {hlog[k].name : k \in Handles}
Succeeded == {hlog[k].name : k \in {j \in Handles : hlog[j].result = "None"}}
Failed == {hlog[k].name : k \in {j \in Handles : hlog[j].result # "None"}}

\* the position of the handler in the list
Pos(name) == CHOOSE i \in 1 .. Len(handlers) : handlers[i].name = name

\* the handler was already run for the old entry and nothing it watches has
\* changed: nothing changed at all, or it lists attributes and none of them did
ShortCircuited(h) ==
    /\ h.name # "replication"
    /\ h.name \in hop.old.modules
    /\ \/ hop.changes = {}
       \/ /\ ~h.attributes.null
          /\ h.attributes.names # <<>>
          /\ \A k \in 1 .. Len(h.attributes.names) :
                h.attributes.names[k] \notin hop.changes

FilterMatches(h) == h.filter = NoFilter \/ hop.new.attrs[h.filter] # 0

\* handler_exec calls the handle hook of this handler
Runnable(h) == "HANDLER_READY" \in h.state \/ INIT_ONLY

(* C8: after handlers_update, a handler whose handle raised or returned a    *)
(* value is not in the module list of the new entry; every handler that is   *)
(* not up to date, whose filter matches and that is ready was invoked, once, *)
(* the others in list order; handlers_update returned 0 and the new entry    *)
(* is in the cache.                                                          *)
C8_FailureDoesNotStopUpdate ==
    AfterUpdate =>
        /\ hrv = 0
        /\ \A n \in Failed : n \notin cache.modules
        /\ \A i \in 1 .. Len(handlers) :
              (/\ ~ShortCircuited(handlers[i])
               /\ FilterMatches(handlers[i])
               /\ Runnable(handlers[i])) => handlers[i].name \in Invoked
        /\ \A a, b \in Handles :
              /\ a # b => hlog[a].name # hlog[b].name
              /\ (/\ a < b
                  /\ hlog[a].name # "replication"
                  /\ hlog[b].name # "replication")
                 => Pos(hlog[a].name) < Pos(hlog[b].name)
        /\ cache.present
        /\ cache.attrs = hop.new.attrs

C8_Witness ==
    /\ AfterUpdate
    /\ hrv = 0
    /\ \E a, b \in Handles :
          /\ a < b
          /\ hlog[a].result = "exception"
          /\ hlog[b].result = "None"
          /\ cache.modules = {hlog[b].name}

(* C9, as stated: after handlers_update the module list of the new entry is  *)
(* exactly the set of handlers whose handle was invoked and returned None,   *)
(* and holds no handler whose filter does not match.                         *)
C9_ModulesAreSucceeded ==
    AfterUpdate =>
        /\ cache.modules = Succeeded
        /\ \A i \in 1 .. Len(handlers) :
              ~FilterMatches(handlers[i]) => handlers[i].name \notin cache.modules

(* C9, amended: after handlers_update the module list of the new entry is    *)
(* exactly the handlers whose handle was invoked and returned None together  *)
(* with the handlers that were up to date, which are carried over from the   *)
(* old entry without invocation and without filter check; it holds no        *)
(* handler whose handle failed and none that was not up to date and whose    *)
(* filter does not match.                                                    *)
C9_ModulesAreSucceededOrUpToDate ==
    AfterUpdate =>
        /\ cache.modules = Succeeded \cup
              {handlers[i].name : i \in {j \in 1 .. Len(handlers) :
                                            ShortCircuited(handlers[j])}}
        /\ cache.modules \cap Failed = {}
        /\ \A i \in 1 .. Len(handlers) :
              (~FilterMatches(handlers[i]) /\ ~ShortCircuited(handlers[i]))
              => handlers[i].name \notin cache.modules

C9_Witness ==
    /\ AfterUpdate
    /\ \E i \in 1 .. Len(handlers) :
          /\ ShortCircuited(handlers[i])
          /\ ~FilterMatches(handlers[i])
          /\ handlers[i].name \in cache.modules
          /\ handlers[i].name \notin Invoked
    /\ Succeeded # {}

(* C10: in an update and in a delete no handle hook of another handler is    *)
(* called before the handle hook of the handler replication.                 *)
C10_ReplicationFirst ==
    (AfterUpdate \/ AfterDelete) =>
        \A a, b \in Handles :
            (hlog[a].name # "replication" /\ hlog[b].name = "replication")
            => b < a

\* a delete that calls the handle hook of another handler before replication's
C10_DeleteBeforeReplication ==
    /\ AfterDelete
    /\ \E a, b \in Handles :
          /\ a < b
          /\ hlog[a].name # "replication"
          /\ hlog[b].name = "replication"

\* the priority of the loaded handler of this name
Priority(name) == handlers[Pos(name)].priority

(* C11, as stated: in an update and in a delete, of two handlers whose       *)
(* handle hooks are both called the one with the lower priority value is     *)
(* called first.                                                             *)
C11_PriorityOrder ==
    (AfterUpdate \/ AfterDelete) =>
        \A a, b \in Handles :
            Priority(hlog[a].name) < Priority(hlog[b].name) => a < b

(* C11, amended: in a delete the handle hooks are called in priority order;  *)
(* in an update the handle hook of replication is called before every other  *)
(* one whatever its priority, and the others are called in priority order.   *)
C11_PriorityOrderAfterReplication ==
    /\ AfterDelete =>
          \A a, b \in Handles :
              Priority(hlog[a].name) < Priority(hlog[b].name) => a < b
    /\ AfterUpdate =>
          \A a, b \in Handles :
              /\ (/\ hlog[a].name # "replication"
                  /\ hlog[b].name # "replication"
                  /\ Priority(hlog[a].name) < Priority(hlog[b].name)) => a < b
              /\ (/\ hlog[a].name = "replication"
                  /\ hlog[b].name # "replication") => a < b

C11_Witness ==
    /\ AfterUpdate
    /\ \E a, b \in Handles :
          /\ a < b
          /\ hlog[a].name = "replication"
          /\ Priority(hlog[a].name) > Priority(hlog[b].name)

(* C12: in a delete the handle hook of a handler is called only if its name  *)
(* is in the module list of the old entry, or it has handle_every_delete     *)
(* set, or it is the handler replication.                                    *)
C12_DeleteInvokesOnlyListed ==
    AfterDelete =>
        \A n \in Invoked :
            \/ n \in hop.old.modules
            \/ handlers[Pos(n)].handle_every_delete
            \/ n = "replication"

C12_Witness ==
    /\ AfterDelete
    /\ \E i, j \in 1 .. Len(handlers) :
          /\ Runnable(handlers[i])
          /\ handlers[i].name \notin hop.old.modules
          /\ handlers[i].name \notin Invoked
          /\ handlers[j].name \in Invoked
          /\ handlers[j].name \in hop.old.modules
          /\ handlers[j].name # "replication"
          /\ ~handlers[j].handle_every_delete

\* line 843 does not skip this handler on the delete of the old entry
DeleteDue(h) ==
    \/ h.name \in hop.old.modules
    \/ h.handle_every_delete
    \/ h.name = "replication"

(* C13: after handlers_delete the module list of the old entry has lost      *)
(* exactly the handlers whose handle hook was called and returned None; a    *)
(* handler whose handle failed is still listed; every handler that is due    *)
(* and ready was called, also after a failure; when a handle failed          *)
(* handlers_delete returned non-zero.                                        *)
C13_DeleteRemovesSucceeded ==
    AfterDelete =>
        /\ hop.old_after.modules = hop.old.modules \ Succeeded
        /\ \A n \in Failed : n \in hop.old.modules => n \in hop.old_after.modules
        /\ \A i \in 1 .. Len(handlers) :
              (DeleteDue(handlers[i]) /\ Runnable(handlers[i]))
              => handlers[i].name \in Invoked
        /\ Failed # {} => hrv # 0

C13_Witness ==
    /\ AfterDelete
    /\ hrv = 1
    /\ \E a, b \in Handles :
          /\ a < b
          /\ hlog[a].result = "exception"
          /\ hlog[a].name \in hop.old_after.modules
          /\ hlog[b].result = "None"
          /\ hlog[b].name \in hop.old.modules
          /\ hlog[b].name \notin hop.old_after.modules

\* the log holds a call of the prerun hook of this handler
PrerunCalled(name) ==
    \E k \in 1 .. Len(hlog) : hlog[k].hook = "prerun" /\ hlog[k].name = name

\* the handler declares attributes and none of them is among the changed ones
DeclaredUnchanged(h) ==
    /\ ~h.attributes.null
    /\ h.attributes.names # <<>>
    /\ \A k \in 1 .. Len(h.attributes.names) :
          h.attributes.names[k] \notin hop.changes

(* C14: after handlers_update, a handler other than replication that is in   *)
(* the module list of the old entry, declares attributes and has none of     *)
(* them changed was not called (neither handle nor prerun) and is in the     *)
(* module list of the new entry.                                             *)
C14_UnchangedAttributesCarryOver ==
    AfterUpdate =>
        \A i \in 1 .. Len(handlers) :
            (/\ handlers[i].name # "replication"
             /\ handlers[i].name \in hop.old.modules
             /\ DeclaredUnchanged(handlers[i]))
            => /\ handlers[i].name \notin Invoked
               /\ ~PrerunCalled(handlers[i].name)
               /\ handlers[i].name \in cache.modules

C14_Witness ==
    /\ AfterUpdate
    /\ hop.changes # {}
    /\ Invoked # {}
    /\ \E i \in 1 .. Len(handlers) :
          /\ handlers[i].name # "replication"
          /\ handlers[i].name \in hop.old.modules
          /\ DeclaredUnchanged(handlers[i])
          /\ handlers[i].prerun
          /\ handlers[i].name \notin Invoked
          /\ handlers[i].name \in cache.modules

(* C15: after handlers_update, a handler that was not taken as up to date    *)
(* and whose filter does not match the new entry was not called and is not   *)
(* in the module list of the new entry, whether or not the old entry listed  *)
(* it.                                                                       *)
C15_NoMatchNotInvokedNotListed ==
    AfterUpdate =>
        \A i \in 1 .. Len(handlers) :
            (~ShortCircuited(handlers[i]) /\ ~FilterMatches(handlers[i]))
            => /\ handlers[i].name \notin Invoked
               /\ ~PrerunCalled(handlers[i].name)
               /\ handlers[i].name \notin cache.modules

C15_Witness ==
    /\ AfterUpdate
    /\ \E i \in 1 .. Len(handlers) :
          /\ Runnable(handlers[i])
          /\ handlers[i].name \in hop.old.modules
          /\ ~ShortCircuited(handlers[i])
          /\ ~FilterMatches(handlers[i])
          /\ handlers[i].name \notin Invoked
          /\ handlers[i].name \notin cache.modules

\* the handler replication is loaded and handler_exec would call its handle
ReplicationReady ==
    \E i \in 1 .. Len(handlers) :
        handlers[i].name = "replication" /\ Runnable(handlers[i])

\* the filter of the loaded handler replication matches the new entry
ReplicationMatches == FilterMatches(handlers[Pos("replication")])

(* C16, as stated: in every update and every delete the handle hook of the   *)
(* handler replication is called, whatever its filter and its attributes.    *)
C16_ReplicationAlwaysInvoked ==
    ((AfterUpdate \/ AfterDelete) /\ ReplicationReady)
    => "replication" \in Invoked

(* C16, amended: in every delete the handle hook of replication is called;   *)
(* in an update it is called iff the filter of replication matches the new   *)
(* entry, whatever changed and whether or not the old entry lists it.        *)
C16_ReplicationInvokedIfFilterMatches ==
    /\ (AfterDelete /\ ReplicationReady) => "replication" \in Invoked
    /\ (AfterUpdate /\ ReplicationReady) =>
          ("replication" \in Invoked <=> ReplicationMatches)

C16_Witness ==
    /\ AfterUpdate
    /\ ReplicationReady
    /\ "replication" \in hop.old.modules
    /\ hop.changes # {}
    /\ DeclaredUnchanged(handlers[Pos("replication")])
    /\ "replication" \in Invoked

\* the handler declares no attributes: no list, or an empty one
NoDeclaredAttributes(h) == h.attributes.null \/ h.attributes.names = <<>>

C18_FailedIsInvokedAgain ==
    AfterUpdate =>
        \A i \in 1 .. Len(handlers) :
            handlers[i].name \in failed_before => handlers[i].name \in Invoked

(* C18, amended: in the update that follows an update in which the handle    *)
(* hook of a handler failed, the old entry does not list the handler and its *)
(* handle hook is called iff its filter matches the new entry, whatever      *)
(* changed.                                                                  *)
C18_FailedIsInvokedAgainIfFilterMatches ==
    AfterUpdate =>
        \A i \in 1 .. Len(handlers) :
            handlers[i].name \in failed_before
            => /\ handlers[i].name \notin hop.old.modules
               /\ handlers[i].name \in Invoked <=> FilterMatches(handlers[i])

C18_Witness ==
    /\ AfterUpdate
    /\ \E i \in 1 .. Len(handlers) :
          /\ handlers[i].name # "replication"
          /\ handlers[i].name \in failed_before
          /\ DeclaredUnchanged(handlers[i])
          /\ handlers[i].name \in Invoked

\* handlers_update has run for an entry that is in the cache with the same
\* attribute values
Reapplied == AfterUpdate /\ hop.old.present /\ hop.new.attrs = hop.old.attrs

(* C19, as stated: handlers_update for a new entry that equals the cached    *)
(* one leaves the cached entry and its module list as they were.             *)
C19_ReapplyLeavesCache ==
    Reapplied => cache = hop.old

(* C19, amended: handlers_update for a new entry that equals the cached one  *)
(* leaves the attributes; the loaded handlers other than replication that    *)
(* the entry lists stay listed and are not called; replication and the       *)
(* handlers that the entry does not list go through the filter check and are *)
(* called on a match, and are listed afterwards iff the call returned None;  *)
(* the name of a module that is not loaded is not carried over.  The cached  *)
(* entry is as before iff replication, when listed, succeeded again, no      *)
(* handler that was not listed succeeded, and every other listed module is   *)
(* loaded.                                                                   *)
C19_ReapplyKeepsListedRunsOthers ==
    Reapplied =>
        /\ cache.present
        /\ cache.attrs = hop.old.attrs
        /\ \A n \in (hop.old.modules \cap Names(handlers)) \ {"replication"} :
              n \notin Invoked /\ n \in cache.modules
        /\ cache.modules =
              ((hop.old.modules \cap Names(handlers)) \ {"replication"})
              \cup Succeeded
        /\ cache = hop.old <=>
              /\ Succeeded \subseteq hop.old.modules
              /\ "replication" \in hop.old.modules => "replication" \in Succeeded
              /\ hop.old.modules \ {"replication"} \subseteq Names(handlers)

C19_Witness ==
    /\ Reapplied
    /\ cache = hop.old
    /\ "replication" \in Succeeded
    /\ \E n \in cache.modules : n # "replication" /\ n \notin Invoked

-----------------------------------------------------------------------------
(* Properties of notifier_listen (specification Spec), continued             *)

\* the records 1, 2, ..., n
Records(n) == [i \in 1 .. n |-> i]

(* C20: with the transaction file enabled, whenever notifier_listen is at    *)
(* the top of its loop or has returned, the transaction file holds one       *)
(* record for each transaction up to the persisted cursor, in ascending      *)
(* order, and nothing else.                                                  *)
C20_TransfileIsCommitted ==
    (write_transaction_file /\ pc \in {"top", "returned"})
    => transfile = Records(master_id)

\* the first run of the listener has stopped at the write of the second
\* record of a delayed pair: the first record is in the file, the cursor has
\* not moved
C20_RecordWithoutCommit ==
    /\ write_transaction_file
    /\ restarts = 1
    /\ pc = "returned"
    /\ fail_step = "transfile_cur"
    /\ master_id = 0
    /\ handed = <<1, 2>>
    /\ transfile = <<1>>

-----------------------------------------------------------------------------
(* Properties of notifier_listen, continued (specification Spec)             *)

(* C21: while the sentinel failed.ldif exists, no transaction is handed to   *)
(* change_update_dn (and so no cache entry is written): no step taken with   *)
(* the sentinel present extends the list of handed transactions or the set   *)
(* of transactions change_update_dn has applied.                             *)
C21_NothingHandedWhileSentinel ==
    [][failed_ldif => (Len(handed') <= Len(handed) /\ updated' = updated)]_vars

\* a started listener is at line 221 with the sentinel present
C21_HandedWithSentinel ==
    /\ pc = "update"
    /\ failed_ldif
    /\ restarts = 2
    /\ cur.id = master_id + 1

\* the paths on which notifier_listen stops
StopSteps == {"get_dn", "alive", "recv", "wait", "get_dn_result", "ordering",
              "ldap_open", "lookup", "change_update_dn", "failed_ldif",
              "transfile_prev", "transfile_cur"}

(* C22: whenever notifier_listen has returned - the GET_ID request could not *)
(* be sent, the keepalive or the receive failed, the reply was out of order, *)
(* the directory failed, change_update_dn failed, the transaction file could *)
(* not be written, the sentinel exists - its result is not 0.                *)
C22_StopsNonZero ==
    (pc = "returned" /\ fail_step \in StopSteps) => rv # 0

\* notifier_listen has returned 0 because the sentinel exists
C22_ReturnedZero ==
    /\ pc = "returned"
    /\ fail_step = "failed_ldif"
    /\ failed_ldif
    /\ rv = 0
    /\ handed = <<1>>

\* Some monitored file system whose statvfs succeeded has fewer free MiB than
\* the configured minimum, which is greater than 0.
Breach(stat) ==
    /\ min_mib > 0
    /\ \E d \in Dirnames : stat[d].ok /\ stat[d].free_mib < min_mib

(* C23: check_free_space runs at the top of every iteration, before the      *)
(* GET_ID request: the request is sent only after a check that found no      *)
(* breach, the process is aborted exactly when the minimum is greater than   *)
(* 0 and a file system whose statvfs succeeded has less free, and after the  *)
(* abort the cursor is the one the iteration started with; the aborted       *)
(* process writes nothing more.                                              *)
C23_FreeSpaceChecked ==
    /\ [](pc = "get_dn" => (stat_seen # {} /\ \A s \in stat_seen : ~Breach(s)))
    /\ [](pc = "aborted" => /\ stat_seen # {} /\ \A s \in stat_seen : Breach(s)
                            /\ master_id = top_cursor)
    /\ [][(pc # "wait" /\ pc' = "wait") => pc = "get_dn"]_vars
    /\ [][(pc = "top" /\ ProcessStep) => pc' \in {"get_dn", "aborted"}]_vars
    /\ [][pc = "aborted" =>
            UNCHANGED <<master_id, notifier_id_key, transfile, updated>>]_vars

\* aborted in the second iteration: one file system could not be examined, the
\* other one has less than the minimum
C23_Witness ==
    /\ pc = "aborted"
    /\ min_mib = 1
    /\ master_id = 1
    /\ handed = <<1>>
    /\ \E s \in stat_seen : ~s["cache_dir"].ok /\ s["ldap_dir"].ok
                            /\ s["ldap_dir"].free_mib = 0

(* C27 as stated: a failure to receive a reply, or of the wait itself, does  *)
(* not terminate the listener.                                               *)
C27_ReceiveErrorKeepsWaiting ==
    pc = "returned" => fail_step \notin {"recv", "wait"}

(* C27: when receiving the reply fails, or notifier_wait fails, while        *)
(* notifier_listen waits for the next id, it returns 1 at once: no new       *)
(* connection is opened, no reply has been taken in this iteration, the      *)
(* request sent last is the one for the transaction after the last handed    *)
(* one, and the persisted cursor is the one the iteration started with.      *)
C27_ReceiveErrorStops ==
    (pc = "returned" /\ fail_step \in {"recv", "wait"}) =>
        /\ rv = 1
        /\ last_reply = NoReply
        /\ req_id = LastHanded + 1
        /\ master_id = top_cursor
        /\ notifier_id_key <= master_id

\* the wait for transaction 2 ended with an error of notifier_wait
C27_Witness ==
    /\ pc = "returned"
    /\ fail_step = "wait"
    /\ handed = <<1>>
    /\ master_id = 1
    /\ req_id = 2

\* a keepalive step: notifier_wait timed out with timeout = DELAY_ALIVE and
\* notifier_listen goes on waiting
KeepaliveStep ==
    /\ pc = "wait" /\ pc' = "wait"
    /\ timeout = DELAY_ALIVE
    /\ idle' # idle

(* C28 as stated: after a keepalive that had to open a new notifier          *)
(* connection the outstanding request asks for the persisted cursor + 1, and *)
(* the cursor is the one the iteration started with.                         *)
C28_ResendsCursorPlusOne ==
    (pc = "wait" /\ reconnected) =>
        /\ req_id = master_id + 1
        /\ master_id = top_cursor

(* C28: a keepalive, with or without a new notifier connection, sends the    *)
(* GET_ID request again for the same target id and leaves the persisted      *)
(* cursor alone; the target is the id after the transaction handed last,     *)
(* which is the persisted cursor + 1 unless a command is stashed in          *)
(* trans.prev, and the cursor stays the one the iteration started with.      *)
C28_ResendsSameTarget ==
    /\ []((pc = "wait" /\ reconnected) =>
            /\ req_id = LastHanded + 1
            /\ prev.command = NUL => req_id = master_id + 1
            /\ master_id = top_cursor)
    /\ [][KeepaliveStep =>
            /\ req_id' = req_id
            /\ UNCHANGED <<master_id, notifier_id_key, transfile, handed>>]_vars

\* reconnected while transaction 1 is stashed: the request asks for 2, the
\* persisted cursor is 0
C28_Witness ==
    /\ pc = "wait"
    /\ reconnected
    /\ prev.command = "r"
    /\ master_id = 0
    /\ handed = <<1>>
    /\ req_id = 2

(* C30 as stated: handlers_postrun_all is called only when the wait has been *)
(* idle for DELAY_ALIVE = 300 seconds or longer.                             *)
C30_PostrunAfterAliveInterval ==
    postrun_idle # -1 => postrun_idle >= DELAY_ALIVE

(* C30: handlers_postrun_all is called when the wait has been idle for       *)
(* DELAY_LDAP_CLOSE = 15 seconds, once per wait; only then the timeout       *)
(* becomes DELAY_ALIVE, so that the first keepalive is sent after 315        *)
(* seconds of idle time, and a keepalive does not call it again.             *)
C30_PostrunAfterCloseDelay ==
    /\ [](postrun_idle # -1 => postrun_idle = DELAY_LDAP_CLOSE)
    /\ [](pc = "wait" => (postrun_idle # -1 <=> idle >= DELAY_LDAP_CLOSE))
    /\ [](pc = "wait" => (postrun_idle # -1 <=> timeout = DELAY_ALIVE))
    /\ [][KeepaliveStep =>
            /\ idle' >= DELAY_LDAP_CLOSE + DELAY_ALIVE
            /\ postrun_idle' = postrun_idle]_vars

\* idle for 315 seconds: postrun was called at 15, one keepalive was sent
C30_Witness ==
    /\ pc = "wait"
    /\ postrun_idle = 15
    /\ idle = 315
    /\ timeout = DELAY_ALIVE
    /\ ~lp_ld

-----------------------------------------------------------------------------
(* Properties of the retry macros (specification SpecRetry)                  *)

(* C24: LDAP_RETRY evaluates the wrapped operation at most ldap_retries + 1  *)
(* times and NOTIFIER_RETRY at most notifier_retries + 1 times, whatever the *)
(* server does.                                                              *)
C24_EvaluationsBounded ==
    macro \in {"LDAP_RETRY", "NOTIFIER_RETRY"} => evals <= retries + 1

\* with a limit of 1 the operation has failed three times, each reconnect in
\* between succeeded at once, and the macro is about to reconnect again
C24_EvaluatedAgain ==
    /\ macro = "LDAP_RETRY"
    /\ retries = 1
    /\ evals = 3
    /\ m_rv = LDAP_SERVER_DOWN
    /\ m_retry = 0
    /\ slept = <<>>
    /\ rpc = "connect"

\* the last result of cmd is the one the macro retries on
TransientResult == IF macro = "LDAP_RETRY" THEN m_rv = LDAP_SERVER_DOWN ELSE m_rv # 0

(* C25 as stated: with a limit of 0 the macros never give up, they leave     *)
(* only with a result that is not a connection failure.                      *)
C25_LimitZeroNeverGivesUp ==
    (retries = 0 /\ rpc = "done") => ~TransientResult

(* C25: with a limit of 0 none of the three macros retries: cmd is evaluated *)
(* once, the macro neither reconnects nor sleeps, and it leaves with the     *)
(* result of that evaluation, a failure included.                            *)
C25_LimitZeroNoRetry ==
    retries = 0 =>
        /\ evals <= 1
        /\ connects = 0
        /\ slept = <<>>
        /\ evals = 1 => rpc = "done"

C25_Witness ==
    /\ retries = 0
    /\ macro = "NOTIFIER_RETRY"
    /\ rpc = "done"
    /\ evals = 1
    /\ m_rv = 1

\* min(2^n, 32)
CappedPower(n) == IF 2 ^ n < 32 THEN 2 ^ n ELSE 32

(* C26: in each macro the delay computed after the n-th failed connection    *)
(* attempt (n = 0, 1, ...) is min(2^n, 32): 1, 2, 4, 8, 16, 32, 32, ...; no  *)
(* delay exceeds 32, the delays never decrease, and the macro sleeps for the *)
(* delays in that order.                                                     *)
C26_DelaysDoubleUpTo32 ==
    /\ \A i \in 1 .. Len(delays) :
         /\ delays[i] = CappedPower(i - 1)
         /\ delays[i] <= 32
         /\ i > 1 => delays[i] >= delays[i - 1]
    /\ Len(slept) <= Len(delays)
    /\ \A i \in 1 .. Len(slept) : slept[i] = delays[i]
    /\ delays # <<>> => m_delay = delays[Len(delays)]

\* seven connection attempts have failed in a row
C26_Witness ==
    /\ macro = "LDAP_RETRY"
    /\ Len(delays) = 7
    /\ delays[6] = 32
    /\ delays[7] = 32
    /\ Len(slept) = 6
    /\ rpc = "done"

-----------------------------------------------------------------------------
(* Properties of the handler runtime, continued (specification SpecHandlers) *)

\* the positions of the log at which the prerun hook of the handler was called
Preruns(name) ==
    {k \in 1 .. Len(hlog) : hlog[k].hook = "prerun" /\ hlog[k].name = name}

(* C29: a handler with a prerun hook whose handle hook was called in a       *)
(* transaction is prepared, i.e. its prerun has completed in the current run *)
(* and no postrun has followed; the transaction called prerun at most once,  *)
(* before handle.                                                            *)
C29_HandleAfterCompletedPrerun ==
    (AfterUpdate \/ AfterDelete) =>
        \A i \in 1 .. Len(handlers) :
            (handlers[i].prerun /\ handlers[i].name \in Invoked) =>
                /\ handlers[i].prepared
                /\ Cardinality(Preruns(handlers[i].name)) <= 1
                /\ \A k \in Preruns(handlers[i].name) :
                     /\ hlog[k].result = "ok"
                     /\ \A j \in Handles : hlog[j].name = handlers[i].name => k < j

\* the prerun hook of home raised an exception, its handle hook was called
\* all the same and returned None, the handler is not prepared
C29_HandleAfterFailedPrerun ==
    /\ AfterUpdate
    /\ \E i \in 1 .. Len(handlers) :
         /\ handlers[i].name = "home"
         /\ handlers[i].prerun
         /\ ~handlers[i].prepared
         /\ \E k \in Preruns("home") : hlog[k].result = "exception"
         /\ "home" \in Succeeded

-----------------------------------------------------------------------------
(* The lookup in cn=translog                                                 *)

\* C33: notifier_wait_id_result is called in an iteration exactly when the
\* reply carries no command, and it is called for the id after the last one
\* processed, whatever id the reply announced; when the lookup succeeds that
\* transaction, and no other, becomes the current one.
C33_LookupIffIdOnly ==
    [][(pc = "fetch" /\ pc' \in {"update", "returned"}) =>
         /\ (looked_up' # 0) <=> (cur.command = NUL)
         /\ looked_up' # 0 => looked_up' = id + 1
         /\ (cur.command = NUL /\ pc' = "update") =>
              /\ id' = id + 1
              /\ cur'.id = id + 1
              /\ cur'.command # NUL
         /\ cur.command # NUL => cur' = cur]_vars

\* an id-only reply announced a later id than the next one, and the next one
\* was looked up and is about to be handed to change_update_dn
C33_Witness ==
    /\ pc = "update"
    /\ last_reply.command = NUL
    /\ last_reply.id > looked_up
    /\ looked_up = cur.id

-----------------------------------------------------------------------------
(* The idle period of one wait                                               *)

\* notifier_wait returned 0 (line 163): the wait timed out
TimedOut == pc = "wait" /\ idle' > idle

\* C34: the first timeout of a wait closes both directory connections and
\* runs handlers_postrun_all, without a keepalive; every later timeout of the
\* same wait is a keepalive (the request is sent again, or the listener stops
\* because the keepalive failed) and leaves the postrun of the wait as it
\* was.  So postrun runs once per idle period, before any keepalive.
C34_PostrunOnceThenKeepalives ==
    [][TimedOut =>
         IF idle = 0
         THEN /\ postrun_idle = -1
              /\ postrun_idle' = idle'
              /\ ~lp_ld' /\ ~lp_local_ld'
              /\ pc' = "wait"
              /\ UNCHANGED <<req_id, reconnected, fail_step>>
         ELSE /\ postrun_idle # -1 /\ postrun_idle <= idle
              /\ postrun_idle' = postrun_idle
              /\ UNCHANGED <<lp_ld, lp_local_ld>>
              /\ \/ pc' = "returned" /\ fail_step' = "alive"
                 \/ pc' = "wait" /\ req_id' = id + 1]_vars

\* a keepalive has been sent in a wait whose first timeout ran postrun and
\* closed the connections
C34_Witness ==
    /\ pc = "wait"
    /\ idle = DELAY_LDAP_CLOSE + DELAY_ALIVE
    /\ postrun_idle = DELAY_LDAP_CLOSE
    /\ req_id = id + 1
    /\ ~lp_ld /\ ~lp_local_ld

-----------------------------------------------------------------------------
(* The two halves of a move                                                  *)

\* C37: while an operation is stashed in trans.prev the persisted cursor is
\* below its id; the iteration that stashed it ends without a record in the
\* transaction file and without a change of the cursor; the only record
\* appended while an operation is stashed is the one of the stashed
\* operation, so it precedes the record of the current one; and the cursor
\* only ever moves to the id of a current operation that was not stashed.
C37_CursorSkipsStashedHalf ==
    /\ []((prev.command # NUL /\ pc \in Running) =>
            /\ master_id < prev.id
            /\ notifier_id_key < prev.id)
    /\ [][(pc = "pending" /\ pc' = "top") =>
            /\ prev.command # NUL /\ cur.command = NUL
            /\ UNCHANGED <<transfile, master_id, notifier_id_key, prev>>]_vars
    /\ [][(transfile' # transfile /\ prev.command # NUL) =>
            /\ transfile' = Append(transfile, prev.id)
            /\ cur.command # NUL /\ cur.id > prev.id]_vars
    /\ [][(transfile' # transfile /\ prev.command = NUL) =>
            transfile' = Append(transfile, cur.id)]_vars
    /\ [][master_id' # master_id =>
            /\ master_id' = cur.id
            /\ cur.command # NUL
            /\ prev.command = NUL]_vars

\* transaction 1 was stashed and transaction 2 completed in the same run: the
\* transaction file has the records 1, 2 and the cursor went from 0 to 2
C37_Witness ==
    /\ pc = "commit_key"
    /\ handed = <<1, 2>>
    /\ transfile = <<1, 2>>
    /\ top_cursor = 0
    /\ master_id = 2

-----------------------------------------------------------------------------
(* The sentinel after change_update_dn                                       *)

\* C38: when the sentinel failed.ldif exists after change_update_dn has
\* returned, notifier_listen stops at once, leaving the transaction file, the
\* persisted cursor and the key as they are; the cursor is then still the one
\* of the top of the iteration and below the transaction handed last, and the
\* next run starts from it, so its first transaction is one handed in this
\* iteration or, for the second half of a move, the first half before it.
C38_SentinelStopsBeforeCommit ==
    /\ [][(pc = "failed_ldif" /\ failed_ldif) =>
            /\ pc' \in {"returned", "off"}
            /\ UNCHANGED <<transfile, master_id, notifier_id_key>>]_vars
    /\ []((pc = "returned" /\ fail_step = "failed_ldif") =>
            /\ handed # <<>>
            /\ master_id = top_cursor
            /\ master_id < LastHanded
            /\ master_id + 1 \in {handed[i] : i \in 1 .. Len(handed)})
    /\ [][(pc = "returned" /\ fail_step = "failed_ldif" /\ pc' = "top") =>
            /\ id' = master_id
            /\ id' + 1 <= LastHanded]_vars
    /\ []((restarts = 2 /\ handed # <<>>) => handed[1] = run_start + 1)

\* change_update_dn has applied transaction 1 and left the sentinel behind:
\* notifier_listen has stopped, the transaction file is enabled and empty and
\* the cursor is still 0
C38_Witness ==
    /\ pc = "returned"
    /\ fail_step = "failed_ldif"
    /\ write_transaction_file
    /\ handed = <<1>>
    /\ updated = {1}
    /\ transfile = <<>>
    /\ master_id = 0

-----------------------------------------------------------------------------
(* Properties of the handler runtime, continued (specification SpecHandlers) *)

\* C31: in the log of every operation each call of a hook (initialize,
\* prerun, handle, postrun, clean, setdata) is followed at once by
\* drop_privileges, whether the hook returned a result or raised an
\* exception: before the next hook is called and before the operation
\* returns.
C31_DropPrivilegesAfterEveryHook ==
    \A k \in 1 .. Len(hlog) :
        hlog[k].hook # "drop_privileges" =>
            /\ k < Len(hlog)
            /\ hlog[k + 1] = DropPrivileges

\* handlers_clean_all has called the clean hooks of mail and home; the hook
\* of home raised an exception, and privileges were dropped after both
C31_Witness ==
    /\ hpc = "done"
    /\ hop.kind = "clean"
    /\ hlog = <<Event("clean", "mail", "ok", NUL), DropPrivileges,
                Event("clean", "home", "exception", NUL), DropPrivileges>>

\* the log holds a call of the hook of this handler with this result
Called(log, hook, name, result) ==
    \E k \in 1 .. Len(log) :
        log[k].hook = hook /\ log[k].name = name /\ log[k].result = result

\* C36: outside init-only mode neither the prerun nor the handle hook of a
\* handler whose state lacks READY is called.  After an update its name is
\* in the module list of the new entry exactly when the handler was skipped
\* as up to date (it is in the list of the old entry and nothing it watches
\* changed); after a delete its membership in the list of the old entry is
\* as before, and handlers_delete returned non-zero when the handler was due.
C36_NotReadyNeverInvoked ==
    ~INIT_ONLY =>
        \A i \in 1 .. Len(handlers) :
            ~Ready(handlers[i]) =>
                /\ \A k \in 1 .. Len(hlog) :
                      hlog[k].name = handlers[i].name =>
                          hlog[k].hook \notin {"prerun", "handle", "postrun"}
                /\ AfterUpdate =>
                      (handlers[i].name \in cache.modules
                          <=> ShortCircuited(handlers[i]))
                /\ AfterDelete =>
                      /\ handlers[i].name \in hop.old_after.modules
                            <=> handlers[i].name \in hop.old.modules
                      /\ DeleteDue(handlers[i]) => hrv # 0

\* C36 as stated: outside init-only mode a handler whose state lacks READY is
\* never invoked; after an update its name is not in the module list of the
\* new entry, and after a delete of an entry that lists it the name is still
\* listed and handlers_delete returned non-zero.
C36_NotReadyWithheld ==
    ~INIT_ONLY =>
        \A i \in 1 .. Len(handlers) :
            ~Ready(handlers[i]) =>
                /\ \A k \in 1 .. Len(hlog) :
                      hlog[k].name = handlers[i].name =>
                          hlog[k].hook \notin {"prerun", "handle"}
                /\ AfterUpdate => handlers[i].name \notin cache.modules
                /\ (AfterDelete /\ handlers[i].name \in hop.old.modules) =>
                      /\ handlers[i].name \in hop.old_after.modules
                      /\ hrv # 0

\* the handler home is not ready and the old entry lists it: an update that
\* changes nothing home watches carried its name over without a call, while
\* the ready handler mail was called
C36_Witness ==
    /\ ~INIT_ONLY
    /\ AfterUpdate
    /\ \E i \in 1 .. Len(handlers) :
          /\ handlers[i].name = "home"
          /\ ~Ready(handlers[i])
    /\ "home" \in hop.old.modules
    /\ "home" \in cache.modules
    /\ Invoked = {"mail"}

\* C39: handlers_postrun_all calls the postrun hook of a handler exactly when
\* the handler is prepared and has the hook; a prepared handler had its
\* handle hook called since it was loaded or since its last successful
\* postrun; a postrun hook that returns, or the absence of the hook, clears
\* the prepared flag, a hook that raises leaves it set, and a handler that is
\* not prepared is left alone.
C39_PostrunOnlyWhenPrepared ==
    /\ [](\A i \in 1 .. Len(handlers) :
             handlers[i].prepared => handlers[i].name \in dispatched)
    /\ [][(hpc = "idle" /\ hop'.kind = "postrun") =>
            \A i \in 1 .. Len(handlers) :
                LET h == handlers[i]
                    calls == {k \in 1 .. Len(hlog') :
                                 /\ hlog'[k].hook = "postrun"
                                 /\ hlog'[k].name = h.name}
                IN  /\ calls # {} <=> (h.prepared /\ h.postrun)
                    /\ calls # {} => h.name \in dispatched
                    /\ \A a, b \in calls : a = b
                    /\ handlers'[i].prepared
                          <=> Called(hlog', "postrun", h.name, "exception")
                    /\ ~h.prepared => handlers'[i] = h]_vars

\* home was dispatched and its postrun hook has returned: it is no longer
\* prepared, and a postrun now would not call the hook again
C39_Witness ==
    /\ hpc = "done"
    /\ hop.kind = "postrun"
    /\ Called(hlog, "postrun", "home", "ok")
    /\ "home" \notin dispatched
    /\ \E i \in 1 .. Len(handlers) :
          handlers[i].name = "home" /\ ~handlers[i].prepared

\* C40: after handlers_delete has returned 0 the module list of the old
\* entry names no loaded handler: every loaded handler that the entry listed
\* had its handle hook called, the hook returned None, and the name was
\* removed.
C40_DeleteZeroClearsLoaded ==
    (AfterDelete /\ hrv = 0) =>
        \A i \in 1 .. Len(handlers) :
            /\ handlers[i].name \notin hop.old_after.modules
            /\ handlers[i].name \in hop.old.modules =>
                  handlers[i].name \in Succeeded

\* handlers_delete returned 0 for an entry that listed both loaded handlers;
\* the name of the module that is not loaded is all that is left of the list
C40_Witness ==
    /\ AfterDelete
    /\ hrv = 0
    /\ Len(handlers) = 2
    /\ \A i \in 1 .. Len(handlers) : handlers[i].name \in hop.old.modules
    /\ Cardinality(hop.old_after.modules) = 1

-----------------------------------------------------------------------------
(* Properties of loading and freeing (specification SpecLoad)                *)

\* the position of the name in the load order
LoadPos(name) == CHOOSE k \in 1 .. Len(loaded) : loaded[k] = name

\* C32: after any sequence of loads the handler list holds exactly the loaded
\* handlers, in order of non-decreasing priority, and handlers of the same
\* priority in the order in which they were loaded.
C32_SortedAndStable ==
    /\ Len(handlers) = Len(loaded)
    /\ Names(handlers) = {loaded[k] : k \in 1 .. Len(loaded)}
    /\ \A i, j \in 1 .. Len(handlers) :
          i < j =>
              /\ handlers[i].priority <= handlers[j].priority
              /\ handlers[i].priority = handlers[j].priority =>
                    LoadPos(handlers[i].name) < LoadPos(handlers[j].name)

\* three handlers are loaded; the two of priority 1 were loaded before the
\* one of priority 0 and kept their load order behind it
C32_Witness ==
    /\ Len(handlers) = 3
    /\ handlers[1].priority = 0
    /\ handlers[2].priority = 1
    /\ handlers[3].priority = 1
    /\ LoadPos(handlers[2].name) = 1
    /\ LoadPos(handlers[3].name) = 2
    /\ LoadPos(handlers[1].name) = 3

\* the handler that this step loads
NewlyLoaded(name) ==
    /\ name \notin Names(handlers)
    /\ \E i \in 1 .. Len(handlers') : handlers'[i].name = name

StateOfLoaded(name) ==
    handlers'[CHOOSE i \in 1 .. Len(handlers') : handlers'[i].name = name].state

\* the decimal text of a state bit-set
Decimal(state) == IF state = {} THEN <<"0">> ELSE <<"2">>

\* C35: handler_free writes the state of the handler as a decimal number to
\* its state file whenever the file can be opened and closed, and a later
\* handler_import of the handler then starts with the state that was freed.
\* When the file cannot be opened it stays as it was.  A handler without
\* state file, or with an empty one, starts with state 0, not READY.
C35_StateSurvivesWrittenFree ==
    /\ [][\A n \in HandlerNames :
            (freed'[n] # freed[n] /\ freed'[n].freed) =>
                /\ \E i \in 1 .. Len(handlers) :
                      handlers[i].name = n /\ handlers[i].state = freed'[n].state
                /\ freed'[n].outcome = "written" =>
                      state_files'[n] = File(Decimal(freed'[n].state))
                /\ freed'[n].outcome = "not_opened" =>
                      state_files'[n] = state_files[n]]_vars
    /\ [][\A n \in HandlerNames :
            NewlyLoaded(n) =>
                /\ (freed[n].freed /\ freed[n].outcome = "written") =>
                      StateOfLoaded(n) = freed[n].state
                /\ (~state_files[n].exists \/ state_files[n].text = <<>>) =>
                      StateOfLoaded(n) = {}]_vars

\* C35 as stated: a handler that is imported after handler_free starts with
\* the state it had when it was freed, and a handler without state file
\* starts with state 0.
C35_StateSurvivesEveryFree ==
    [][\A n \in HandlerNames :
         NewlyLoaded(n) =>
             /\ freed[n].freed => StateOfLoaded(n) = freed[n].state
             /\ ~state_files[n].exists => StateOfLoaded(n) = {}]_vars

\* home became ready and was freed; handler_free wrote the text 2 to its
\* state file, and the modules are about to be loaded again
C35_Witness ==
    /\ hpc = "load"
    /\ "home" \notin Names(handlers)
    /\ freed["home"] = [freed |-> TRUE, state |-> {"HANDLER_READY"},
                        outcome |-> "written"]
    /\ state_files["home"] = File(<<"2">>)

-----------------------------------------------------------------------------
(* Initial states and specifications                                         *)

ListenerInit(W, M) ==
    /\ pc = "off"
    /\ id = 0
    /\ rv = 0
    /\ timeout = DELAY_LDAP_CLOSE
    /\ reply = NoReply
    /\ cur = ZeroOp
    /\ prev = ZeroOp
    /\ lp_ld = FALSE
    /\ lp_local_ld = FALSE
    /\ master_id = 0
    /\ notifier_id_key = 0
    /\ transfile = <<>>
    /\ failed_ldif = FALSE
    /\ write_transaction_file \in W
    /\ min_mib \in M
    /\ req_id = 0
    /\ handed = <<>>
    /\ updated = {}
    /\ run_start = 0
    /\ top_cursor = 0
    /\ last_reply = NoReply
    /\ fail_step = "none"
    /\ restarts = 0
    /\ stat_seen = {}
    /\ idle = 0
    /\ postrun_idle = -1
    /\ reconnected = FALSE
    /\ looked_up = 0

HandlersInit(phase, modes, entries) ==
    /\ handlers = <<>>
    /\ cache \in entries
    /\ hpc = phase
    /\ hlog = <<>>
    /\ hrv = 0
    /\ hop = NoOp
    /\ INIT_ONLY \in modes
    /\ failed_before = {}
    /\ dispatched = {}

\* no state file exists and nothing was loaded or freed
FilesInit ==
    /\ state_files = [n \in HandlerNames |-> NoFile]
    /\ loaded = <<>>
    /\ freed = [n \in HandlerNames |-> NotFreed]

\* lines 41-43, 70-72, 101-103: _retry = 0, the limit is the configured one
RetryInit(phase, macros, limits) ==
    /\ rpc = phase
    /\ macro \in macros
    /\ retries \in limits
    /\ m_retry = 0
    /\ m_rv = 0
    /\ m_delay = 0
    /\ evals = 0
    /\ connects = 0
    /\ delays = <<>>
    /\ slept = <<>>

RetryOff == RetryInit("off", {"LDAP_RETRY"}, {0})

(* The listener loop; the handler runtime is not started.                    *)
Init ==
    /\ ListenerInit(BOOLEAN, {0, 1})
    /\ HandlersInit("off", {FALSE}, {NoEntry})
    /\ RetryOff
    /\ FilesInit

Next ==
    \/ Start
    \/ LoopTop
    \/ GetDn
    \/ WaitClose
    \/ WaitAlive
    \/ WaitData
    \/ Receive
    \/ EnsureLdap
    \/ Fetch
    \/ ChangeUpdateDn
    \/ CheckFailedLdif
    \/ Pending
    \/ WriteCur
    \/ CommitMaster
    \/ CommitKey
    \/ Crash
    \/ RemoveFailedLdif

Spec == Init /\ [][Next]_vars

(* The handler runtime: modules are loaded, then transactions are dispatched. *)
(* The cache has no entry for the DN, or the one an earlier run left there.  *)
InitHandlers ==
    /\ ListenerInit({FALSE}, {0})
    /\ HandlersInit("load", BOOLEAN, {NoEntry, CachedEntry})
    /\ RetryOff
    /\ FilesInit

NextHandlers ==
    \/ Import
    \/ StartRun
    \/ Update
    \/ Delete
    \/ Postrun
    \/ InitializeAll
    \/ CleanAll
    \/ SetDataAll
    \/ Finish

SpecHandlers == InitHandlers /\ [][NextHandlers]_vars

(* One expansion of a retry macro, for every macro and every limit.          *)
InitRetry ==
    /\ ListenerInit({FALSE}, {0}) /\ HandlersInit("off", {FALSE}, {NoEntry})
    /\ RetryInit("cmd", Macros, 0 .. MaxRetries)
    /\ FilesInit

NextRetry ==
    \/ RetryCmd
    \/ RetryConnect

SpecRetry == InitRetry /\ [][NextRetry]_vars

(* The life cycle of the handler list: the modules are loaded, handlers      *)
(* become ready, the list is freed and loaded again.                         *)
InitLoad ==
    /\ ListenerInit({FALSE}, {0})
    /\ HandlersInit("load", {FALSE}, {NoEntry})
    /\ RetryOff
    /\ FilesInit

NextLoad ==
    \/ LoadModule
    \/ StartRun
    \/ MarkReady
    \/ FreeAll

SpecLoad == InitLoad /\ [][NextLoad]_vars

====
